---------------------------- MODULE Spec2Model ----------------------------
(***************************************************************************)
(* Zone manager of ZenFS (fs/zbd_zenfs.cc): zones, token accounting,       *)
(* lifetime buckets, the I/O allocator and the migration channel.          *)
(*                                                                         *)
(* Sizes are counted in blocks.  Zone i of the device starts at            *)
(* i * ZoneSize.  Threads are the callers of the manager's public          *)
(* interface; a step of a thread is one atomic region of the code (a       *)
(* critical section of level_zones_mtx_, one atomic operation on a busy    *)
(* flag together with the thread-private code around it, or one backend    *)
(* call).                                                                  *)
(***************************************************************************)
EXTENDS Integers, Sequences, FiniteSets, TLC

(* ------------------------------ bounds -------------------------------- *)
\* zones the device reports (the first ZENFS_META_ZONES become meta zones)
NrZones == 6
\* zones of the largest device
MaxZones == 7
\* zone size of the device, in blocks (GetZoneSize)
ZoneSize == 3
\* writable capacity of a zone, in blocks (ZoneMaxCapacity); below ZoneSize
ZoneCapacity == 2
\* number of lifetime buckets (diff_level_num_, a configuration value)
diff_level_num_ == 2
\* minimum number of zones, scaled down from the source's 32
ZENFS_MIN_ZONES == 6
\* largest append request, in blocks
MaxAppend == 3
\* tokens of each kind that callers outside the allocator hold at a time
MaxExternalTokens == 1
\* calls made on the zone manager after InitialLevelZones
MaxCalls == 5

(* ------------------------- program constants --------------------------- *)
ZENFS_META_ZONES == 3
reserved_zones == 2
WLTH_NOT_SET == 0
WLTH_NONE == 1
WLTH_SHORT == 2
WLTH_EXTREME == 5
\* lowest lifetime class (configuration)
lifetime_begin_ == 3
\* class every low-hint file other than the WAL is pinned to
HighestLevel == 8
\* file id of the WAL
WalFileId == 5
\* lifetime class of the migration zones: (3 + 2)
GCLifetime == 5
nullptr == -1

Threads == {"t1", "t2"}
NoThread == "none"
\* logical owners of a busy flag that are no thread: the lifetime buckets
\* (idle bucket zones stay busy) and the migration slots
LevelPool == "pool"
GCSlot == "gc"

OK == "OK"
NoSpace == "NoSpace"
IOError == "IOError"
Corruption == "Corruption"
NotSupported == "NotSupported"
InvalidArgument == "InvalidArgument"

ZoneIds == 0 .. (MaxZones - 1)
Levels == 0 .. (diff_level_num_ - 1)

Min(a, b) == IF a < b THEN a ELSE b

VARIABLES
  dev,                      \* what the backend reports at Open
  phase,                    \* "closed", "opened", "running", "failed", "crashed", "zones"
  zone,                     \* zone id -> Zone object
  finished,                 \* zones the device holds as full by Finish (or found full)
  offline,                  \* zones a Reset reported offline
  meta_zones, io_zones,     \* the registries (sequences of zone ids)
  finish_threshold_,
  open_io_zones_, active_io_zones_,
  max_nr_open_io_zones_, max_nr_active_io_zones_,
  level_zones,              \* bucket index -> set of zone ids
  level_active_io_zones_,   \* bucket index -> idle counter
  zone_deferred_status_,
  gc_zone_, gc_aux_zone_,   \* the migration slots
  level_zones_mtx_,         \* owner of the bucket mutex, or NoThread
  th,                       \* thread -> program counter and locals
  res,                      \* thread -> outcome of its last completed call
  own,                      \* zone id -> logical owners of its busy flag
  migr,                     \* thread -> zone TakeMigrateZone handed to it
  hist                      \* history of the run the properties refer to

vars == << dev, phase, zone, finished, offline, meta_zones, io_zones,
           finish_threshold_, open_io_zones_, active_io_zones_,
           max_nr_open_io_zones_, max_nr_active_io_zones_, level_zones,
           level_active_io_zones_, zone_deferred_status_, gc_zone_,
           gc_aux_zone_, level_zones_mtx_, th, res, own, migr, hist >>

devVars == << dev, meta_zones, io_zones, finish_threshold_,
              max_nr_open_io_zones_, max_nr_active_io_zones_ >>
tokenVars == << open_io_zones_, active_io_zones_ >>
levelVars == << level_zones, level_active_io_zones_ >>
gcVars == << gc_zone_, gc_aux_zone_, migr >>
zoneVars == << zone, finished, offline >>

(* ------------------------------ device --------------------------------- *)
\* State of one zone in the report of ListZones.
\*   "empty"   wp at the start, writable
\*   "partial" one block written, writable, active
\*   "full"    not writable, wp at the end of the zone
\*   "offline" not usable
DevKind(layout, i) ==
  CASE layout = "fresh" -> "empty"
    [] layout = "used" ->
         IF i = ZENFS_META_ZONES THEN "partial"
         ELSE IF i = 0 THEN "partial"
         ELSE "empty"
    [] layout = "aged" ->
         IF i = ZENFS_META_ZONES THEN "full"
         ELSE IF i = 1 THEN "offline"
         ELSE "empty"
    [] OTHER -> "empty"

Layouts == {"fresh", "used", "aged"}

ZoneStart(i) == i * ZoneSize
ZoneMaxCapacity(layout, i) == ZoneCapacity
ZoneWp(layout, i) ==
  CASE DevKind(layout, i) = "partial" -> ZoneStart(i) + 1
    [] DevKind(layout, i) = "full" -> ZoneStart(i) + ZoneSize
    [] OTHER -> ZoneStart(i)
ZoneIsWritable(layout, i) == DevKind(layout, i) \in {"empty", "partial"}
ZoneIsOffline(layout, i) == DevKind(layout, i) = "offline"
ZoneIsActive(layout, i) == DevKind(layout, i) = "partial"

(* ------------------------------- Zone ---------------------------------- *)
\* Zone::Zone
ZoneCtor(layout, i) ==
  [ start_ |-> ZoneStart(i),
    max_capacity_ |-> ZoneMaxCapacity(layout, i),
    wp_ |-> ZoneWp(layout, i),
    capacity_ |-> IF ZoneIsWritable(layout, i)
                  THEN ZoneMaxCapacity(layout, i) - (ZoneWp(layout, i) - ZoneStart(i))
                  ELSE 0,
    used_capacity_ |-> 0,
    lifetime_ |-> WLTH_NOT_SET,
    busy_ |-> FALSE,
    useinlevelzone_ |-> FALSE ]

IsUsed(z) == zone[z].used_capacity_ > 0
IsFull(z) == zone[z].capacity_ = 0
IsEmpty(z) == zone[z].wp_ = zone[z].start_
IsBusy(z) == zone[z].busy_

\* Zone::Acquire is a compare-and-swap of busy_ from false to true, and
\* Zone::Release one from true to false.
CanAcquire(z) == ~zone[z].busy_

\* Outcomes of the backend's Reset: failure, offline, or online with the
\* capacity the device now reports.
ResetOutcomes ==
  { [ok |-> FALSE, offline |-> FALSE, max_capacity |-> 0],
    [ok |-> TRUE, offline |-> TRUE, max_capacity |-> 0],
    [ok |-> TRUE, offline |-> FALSE, max_capacity |-> ZoneCapacity],
    [ok |-> TRUE, offline |-> FALSE, max_capacity |-> ZoneCapacity - 1] }

\* a zone the device has taken offline stays offline
BackendReset(z) ==
  IF z \in offline THEN {o \in ResetOutcomes : ~o.ok \/ o.offline}
  ELSE ResetOutcomes

\* mutant of ZoneAfterReset: the write pointer is not rewound
ZoneAfterReset_KeepWp(zr, o) ==
  [ zr EXCEPT
      !.capacity_ = IF o.offline THEN 0 ELSE o.max_capacity,
      !.max_capacity_ = IF o.offline THEN @ ELSE o.max_capacity,
      !.lifetime_ = WLTH_NOT_SET ]

\* Zone::Reset after a successful backend call
ZoneAfterReset(zr, o) ==
  [ zr EXCEPT
      !.capacity_ = IF o.offline THEN 0 ELSE o.max_capacity,
      !.max_capacity_ = IF o.offline THEN @ ELSE o.max_capacity,
      !.wp_ = zr.start_,
      !.lifetime_ = WLTH_NOT_SET ]

\* Zone::Finish after a successful backend call
ZoneAfterFinish(zr) ==
  [ zr EXCEPT !.capacity_ = 0, !.wp_ = zr.start_ + ZoneSize ]

\* mutant of ZoneAfterWrite: the remaining capacity is not reduced
ZoneAfterWrite_KeepCapacity(zr, ret) ==
  [ zr EXCEPT !.wp_ = @ + ret ]

\* one iteration of the loop of Zone::Append: the backend wrote ret blocks
ZoneAfterWrite(zr, ret) ==
  [ zr EXCEPT !.wp_ = @ + ret, !.capacity_ = @ - ret ]

(* ------------------------------ threads -------------------------------- *)
\* pc: where the thread stands; z: the zone it works on; i: the position of
\* a scan in a registry (1-based); lt, wal, hint, id: the request of
\* AllocateIOZone;
\* left: what an Append still has to write; nested: ResetUnusedIOZones runs
\* inside AllocateIOZone; ret: where the thread continues after
\* EmitLevelZone
IdleThread ==
  [ pc |-> "idle", z |-> nullptr, i |-> 0, lt |-> 0, wal |-> FALSE,
    left |-> 0, nested |-> FALSE, ret |-> "idle", hint |-> 0, id |-> 0 ]

\* op: the call; st: its status; z: the zone it returned or worked on;
\* lvl: the bucket index AllocateIOZone computed; the rest describes an
\* Append (wp and capacity at the call, size, backend writes issued)
NoResult ==
  [ op |-> "none", st |-> OK, z |-> nullptr, lvl |-> 0, wp0 |-> 0,
    cap0 |-> 0, size |-> 0, writes |-> 0 ]

IsIdle(t) == th[t].pc = "idle"

SetRes(t, r) == [res EXCEPT ![t] = r]
Result(o, s, z) == [NoResult EXCEPT !.op = o, !.st = s, !.z = z]

(* -------------------- operations on a single zone ---------------------- *)
\* The caller of a zone operation holds the zone: it acquired it, or the
\* allocator handed it over.
Holds(t, z) == t \in own[z]

\* Zone::Acquire succeeding
Acquire(t, z) ==
  /\ IsIdle(t)
  /\ CanAcquire(z)
  /\ zone' = [zone EXCEPT ![z].busy_ = TRUE]
  /\ own' = [own EXCEPT ![z] = @ \cup {t}]
  /\ res' = SetRes(t, Result("Acquire", OK, z))
  /\ UNCHANGED << dev, phase, finished, offline, meta_zones, io_zones,
                  finish_threshold_, tokenVars, max_nr_open_io_zones_,
                  max_nr_active_io_zones_, levelVars, zone_deferred_status_,
                  gcVars, level_zones_mtx_, th, hist >>

\* Zone::Release succeeding, by the thread that holds the zone
Release(t, z) ==
  /\ IsIdle(t)
  /\ Holds(t, z)
  /\ IsBusy(z)
  /\ zone' = [zone EXCEPT ![z].busy_ = FALSE]
  /\ own' = [own EXCEPT ![z] = @ \ {t}]
  /\ res' = SetRes(t, Result("Release", OK, z))
  /\ UNCHANGED << dev, phase, finished, offline, meta_zones, io_zones,
                  finish_threshold_, tokenVars, max_nr_open_io_zones_,
                  max_nr_active_io_zones_, levelVars, zone_deferred_status_,
                  gcVars, level_zones_mtx_, th, hist >>

\* the capacity check of Zone::Append
AppendFits(zr, size) == ~(zr.capacity_ < size)

\* mutant of AppendCall: the capacity check is dropped
AppendCall_NoCheck(t, z, size) ==
  /\ IsIdle(t)
  /\ Holds(t, z)
  /\ res' = SetRes(t, [ NoResult EXCEPT !.op = "Append", !.st = "pending",
                        !.z = z, !.wp0 = zone[z].wp_,
                        !.cap0 = zone[z].capacity_, !.size = size ])
  /\ th' = [th EXCEPT ![t] = [IdleThread EXCEPT !.pc = "Append",
               !.z = z, !.left = size]]
  /\ UNCHANGED << dev, phase, zoneVars, meta_zones, io_zones,
                  finish_threshold_, tokenVars, max_nr_open_io_zones_,
                  max_nr_active_io_zones_, levelVars, zone_deferred_status_,
                  gcVars, level_zones_mtx_, own, hist >>

\* Zone::Append up to its loop: the capacity check
AppendCall(t, z, size) ==
  /\ IsIdle(t)
  /\ Holds(t, z)
  /\ LET r == [ NoResult EXCEPT !.op = "Append", !.st = "pending", !.z = z,
                  !.wp0 = zone[z].wp_, !.cap0 = zone[z].capacity_,
                  !.size = size ]
     IN IF ~AppendFits(zone[z], size)
        THEN /\ res' = SetRes(t, [r EXCEPT !.st = NoSpace])
             /\ th' = th
        ELSE /\ res' = SetRes(t, r)
             /\ th' = [th EXCEPT ![t] = [IdleThread EXCEPT !.pc = "Append",
                          !.z = z, !.left = size]]
  /\ UNCHANGED << dev, phase, zoneVars, meta_zones, io_zones,
                  finish_threshold_, tokenVars, max_nr_open_io_zones_,
                  max_nr_active_io_zones_, levelVars, zone_deferred_status_,
                  gcVars, level_zones_mtx_, own, hist >>

\* one iteration of the loop of Zone::Append: the backend writes ret blocks
\* (a short write when ret < left)
AppendWrite(t, ret) ==
  /\ th[t].pc = "Append"
  /\ ret \in 1 .. th[t].left
  /\ zone' = [zone EXCEPT ![th[t].z] = ZoneAfterWrite(@, ret)]
  /\ IF th[t].left - ret = 0
     THEN /\ th' = [th EXCEPT ![t] = IdleThread]
          /\ res' = [res EXCEPT ![t].st = OK, ![t].writes = @ + 1]
     ELSE /\ th' = [th EXCEPT ![t].left = @ - ret]
          /\ res' = [res EXCEPT ![t].writes = @ + 1]
  /\ UNCHANGED << dev, phase, finished, offline, meta_zones, io_zones,
                  finish_threshold_, tokenVars, max_nr_open_io_zones_,
                  max_nr_active_io_zones_, levelVars, zone_deferred_status_,
                  gcVars, level_zones_mtx_, own, hist >>

\* one iteration of the loop of Zone::Append: the backend reports an error
AppendError(t) ==
  /\ th[t].pc = "Append"
  /\ th' = [th EXCEPT ![t] = IdleThread]
  /\ res' = [res EXCEPT ![t].st = IOError, ![t].writes = @ + 1]
  /\ UNCHANGED << dev, phase, zoneVars, meta_zones, io_zones,
                  finish_threshold_, tokenVars, max_nr_open_io_zones_,
                  max_nr_active_io_zones_, levelVars, zone_deferred_status_,
                  gcVars, level_zones_mtx_, own, hist >>

\* Zone::Finish called by the holder of the zone
Finish(t, z, ok) ==
  /\ IsIdle(t)
  /\ Holds(t, z)
  /\ IsBusy(z)
  /\ IF ok
     THEN /\ zone' = [zone EXCEPT ![z] = ZoneAfterFinish(@)]
          /\ finished' = finished \cup {z}
          /\ res' = SetRes(t, Result("Finish", OK, z))
     ELSE /\ UNCHANGED << zone, finished >>
          /\ res' = SetRes(t, Result("Finish", IOError, z))
  /\ UNCHANGED << dev, phase, offline, meta_zones, io_zones,
                  finish_threshold_, tokenVars, max_nr_open_io_zones_,
                  max_nr_active_io_zones_, levelVars, zone_deferred_status_,
                  gcVars, level_zones_mtx_, th, own, hist >>

\* Zone::Reset called by the holder of a zone without live data
Reset(t, z, o) ==
  /\ IsIdle(t)
  /\ Holds(t, z)
  /\ IsBusy(z)
  /\ ~IsUsed(z)
  /\ o \in BackendReset(z)
  /\ IF o.ok
     THEN /\ zone' = [zone EXCEPT ![z] = ZoneAfterReset(@, o)]
          /\ finished' = finished \ {z}
          /\ offline' = IF o.offline THEN offline \cup {z} ELSE offline
          /\ res' = SetRes(t, Result("Reset", OK, z))
     ELSE /\ UNCHANGED << zone, finished, offline >>
          /\ res' = SetRes(t, Result("Reset", IOError, z))
  /\ UNCHANGED << dev, phase, meta_zones, io_zones,
                  finish_threshold_, tokenVars, max_nr_open_io_zones_,
                  max_nr_active_io_zones_, levelVars, zone_deferred_status_,
                  gcVars, level_zones_mtx_, th, own, hist >>

\* The upper layer accounts a written block as live data of the file that
\* holds the zone ...
ExtentAdded(t, z) ==
  /\ IsIdle(t)
  /\ Holds(t, z)
  /\ zone[z].used_capacity_ < zone[z].wp_ - zone[z].start_
  /\ zone' = [zone EXCEPT ![z].used_capacity_ = @ + 1]
  /\ UNCHANGED << dev, phase, finished, offline, meta_zones, io_zones,
                  finish_threshold_, tokenVars, max_nr_open_io_zones_,
                  max_nr_active_io_zones_, levelVars, zone_deferred_status_,
                  gcVars, level_zones_mtx_, th, res, own, hist >>

\* ... and invalidates it when the file is deleted (from any thread).
ExtentInvalidated(z) ==
  /\ zone[z].used_capacity_ > 0
  /\ zone' = [zone EXCEPT ![z].used_capacity_ = @ - 1]
  /\ UNCHANGED << dev, phase, finished, offline, meta_zones, io_zones,
                  finish_threshold_, tokenVars, max_nr_open_io_zones_,
                  max_nr_active_io_zones_, levelVars, zone_deferred_status_,
                  gcVars, level_zones_mtx_, th, res, own, hist >>

(* ------------- specification of the operations of one zone ------------- *)
\* the zone the single-zone specification exercises: the first zone after
\* the meta zones, which the layouts report empty, partial or full
TestZone == ZENFS_META_ZONES

NoHistory ==
  [ open_status |-> OK,       \* what Open returned
    deferred_set |-> FALSE,   \* SetZoneDeferredStatus was called with an error
    bad_reset |-> FALSE,      \* a Reset ran on a zone with live data, or not busy
    ext_open |-> 0,           \* open tokens held through WaitForOpenIOZoneToken
    ext_active |-> 0,         \* active tokens held through GetActiveIOZoneTokenIfAvailable
    gc_open |-> 0,            \* open tokens charged by AllocateEmptyZoneForGC
    gc_active |-> 0,          \* active tokens charged by AllocateEmptyZoneForGC
    calls |-> 0,              \* calls made on the manager
    asleep |-> {} ]           \* threads that sleep on level_zone_resources_

\* A device and its configuration.  The limits of open and of active
\* zones the backend reports are: none; one more than the lifetime
\* classes; enough for the classes and the reserve.
Device(layout, nr, limit, threshold) ==
  [ layout |-> layout, nr |-> nr, max_active |-> limit, max_open |-> limit,
    finish_threshold |-> threshold ]

InitCommon ==
  /\ meta_zones = << >>
  /\ io_zones = << >>
  /\ open_io_zones_ = 0
  /\ active_io_zones_ = 0
  /\ max_nr_open_io_zones_ = 0
  /\ max_nr_active_io_zones_ = 0
  /\ level_zones = [l \in Levels |-> {}]
  /\ level_active_io_zones_ = [l \in Levels |-> 0]
  /\ zone_deferred_status_ = OK
  /\ gc_zone_ = nullptr
  /\ gc_aux_zone_ = nullptr
  /\ level_zones_mtx_ = NoThread
  /\ th = [t \in Threads |-> IdleThread]
  /\ res = [t \in Threads |-> NoResult]
  /\ own = [z \in ZoneIds |-> {}]
  /\ migr = [t \in Threads |-> nullptr]
  /\ hist = NoHistory

InitZone ==
  /\ InitCommon
  /\ dev \in {Device(layout, NrZones, 0, 0) : layout \in Layouts}
  /\ finish_threshold_ = 0
  /\ phase = "zones"
  /\ zone = [z \in ZoneIds |-> ZoneCtor(dev.layout, z)]
  /\ finished = {z \in ZoneIds : DevKind(dev.layout, z) = "full"}
  /\ offline = {z \in ZoneIds : DevKind(dev.layout, z) = "offline"}

NextZone ==
  \/ \E t \in Threads : Acquire(t, TestZone)
  \/ \E t \in Threads : Release(t, TestZone)
  \/ \E t \in Threads, size \in 1 .. MaxAppend : AppendCall(t, TestZone, size)
  \/ \E t \in Threads, ret \in 1 .. MaxAppend : AppendWrite(t, ret)
  \/ \E t \in Threads : AppendError(t)
  \/ \E t \in Threads, ok \in BOOLEAN : Finish(t, TestZone, ok)
  \/ \E t \in Threads, o \in ResetOutcomes : Reset(t, TestZone, o)
  \/ \E t \in Threads : ExtentAdded(t, TestZone)
  \/ ExtentInvalidated(TestZone)

SpecZone == InitZone /\ [][NextZone]_vars

(* ============================ the manager ============================== *)
\* least element of a non-empty set of integers
Least(S) == CHOOSE k \in S : \A m \in S : k <= m

SeqRange(q) == {q[k] : k \in 1 .. Len(q)}

\* the elements of a set of zone ids as a sequence in increasing order
RECURSIVE Ascending(_)
Ascending(S) ==
  IF S = {} THEN << >>
  ELSE << Least(S) >> \o Ascending(S \ {Least(S)})

\* ZonedBlockDevice::Open: the first ZENFS_META_ZONES sequential zones are
\* meta zones (the offline ones are counted and dropped), every later zone
\* that is not offline is an I/O zone.
MetaZonesOf(d) ==
  Ascending({i \in 0 .. (Min(ZENFS_META_ZONES, d.nr) - 1) :
               ~ZoneIsOffline(d.layout, i)})

IOZonesOf(d) ==
  Ascending({i \in Min(ZENFS_META_ZONES, d.nr) .. (d.nr - 1) :
               ~ZoneIsOffline(d.layout, i)})

ActiveAtOpen(d) ==
  Cardinality({z \in SeqRange(IOZonesOf(d)) : ZoneIsActive(d.layout, z)})

\* the caps Open derives from what the backend reports (0: no limit)
CapOf(reported, nr) == IF reported = 0 THEN nr ELSE reported - reserved_zones

Open(readonly, exclusive) ==
  /\ phase = "closed"
  /\ IF ~readonly /\ ~exclusive
     THEN /\ phase' = "failed"
          /\ hist' = [hist EXCEPT !.open_status = InvalidArgument]
          /\ UNCHANGED << meta_zones, io_zones, max_nr_open_io_zones_,
                          max_nr_active_io_zones_, active_io_zones_ >>
     ELSE IF dev.nr < ZENFS_MIN_ZONES
     THEN /\ phase' = "failed"
          /\ hist' = [hist EXCEPT !.open_status = NotSupported]
          /\ UNCHANGED << meta_zones, io_zones, max_nr_open_io_zones_,
                          max_nr_active_io_zones_, active_io_zones_ >>
     ELSE /\ max_nr_active_io_zones_' = CapOf(dev.max_active, dev.nr)
          /\ max_nr_open_io_zones_' = CapOf(dev.max_open, dev.nr)
          /\ meta_zones' = MetaZonesOf(dev)
          /\ io_zones' = IOZonesOf(dev)
          /\ active_io_zones_' = ActiveAtOpen(dev)
          /\ phase' = IF readonly THEN "readonly" ELSE "opened"
          /\ hist' = [hist EXCEPT !.open_status = OK]
  /\ UNCHANGED << dev, zoneVars, finish_threshold_, open_io_zones_, levelVars,
                  zone_deferred_status_, gcVars, level_zones_mtx_, th, res,
                  own >>

\* ZonedBlockDevice::AllocateEmptyZone on the zones zn: the first zone of
\* the registry that can be acquired and is empty, or nullptr.  (A zone
\* that is acquired and found not empty is released again at once.)
EmptyZoneIn(zn) ==
  LET S == {k \in 1 .. Len(io_zones) :
              /\ ~zn[io_zones[k]].busy_
              /\ zn[io_zones[k]].wp_ = zn[io_zones[k]].start_}
  IN IF S = {} THEN nullptr ELSE io_zones[Least(S)]

AllocateEmptyZone == EmptyZoneIn(zone)

\* the seeding loop without its count of the seeded zone as available
RECURSIVE SeedLevels_Uncounted(_, _)
SeedLevels_Uncounted(i, s) ==
  IF i >= diff_level_num_ THEN s
  ELSE LET a == EmptyZoneIn(s.zone)
           charged == [s EXCEPT !.open = @ + 1, !.active = @ + 1]
       IN IF a = nullptr
          THEN [charged EXCEPT !.crashed = TRUE]
          ELSE SeedLevels_Uncounted(i + 1,
                 [charged EXCEPT
                    !.zone[a].busy_ = TRUE,
                    !.zone[a].lifetime_ = i + lifetime_begin_,
                    !.own[a] = @ \cup {LevelPool},
                    !.level_zones[i] = @ \cup {a}])

\* ZonedBlockDevice::InitialLevelZones from bucket i on; s holds what the
\* loop has done so far.  AllocateEmptyZone returning nullptr makes the
\* loop dereference a null pointer.
RECURSIVE SeedLevels(_, _)
SeedLevels(i, s) ==
  IF i >= diff_level_num_ THEN s
  ELSE LET a == EmptyZoneIn(s.zone)
           charged == [s EXCEPT !.open = @ + 1, !.active = @ + 1]
       IN IF a = nullptr
          THEN [charged EXCEPT !.crashed = TRUE]
          ELSE SeedLevels(i + 1,
                 [charged EXCEPT
                    !.zone[a].busy_ = TRUE,
                    !.zone[a].lifetime_ = i + lifetime_begin_,
                    !.own[a] = @ \cup {LevelPool},
                    !.level_zones[i] = @ \cup {a},
                    !.avail[i] = @ + 1])

InitialLevelZones ==
  /\ phase = "opened"
  /\ LET s == SeedLevels(0, [ zone |-> zone, own |-> own,
                              level_zones |-> level_zones,
                              avail |-> level_active_io_zones_,
                              open |-> open_io_zones_,
                              active |-> active_io_zones_,
                              crashed |-> FALSE ])
     IN /\ zone' = s.zone
        /\ own' = s.own
        /\ level_zones' = s.level_zones
        /\ level_active_io_zones_' = s.avail
        /\ open_io_zones_' = s.open
        /\ active_io_zones_' = s.active
        /\ phase' = IF s.crashed THEN "crashed" ELSE "running"
  /\ UNCHANGED << devVars, finished, offline, zone_deferred_status_, gcVars,
                  level_zones_mtx_, th, res, hist >>

(* --------------------------- shared pieces ----------------------------- *)
\* a thread that is not inside a call makes its next call
Running(t) == phase = "running" /\ IsIdle(t) /\ hist.calls < MaxCalls
\* ... which is counted
Called == [hist EXCEPT !.calls = @ + 1]
\* level_zone_resources_.notify_all(): every sleeping thread wakes up
NotifyAll(h) == [h EXCEPT !.asleep = {}]
\* a thread inside a wait on level_zone_resources_ evaluates the predicate
\* when it enters the wait and after each notification
Awake(t) == t \notin hist.asleep
MtxFree == level_zones_mtx_ = NoThread
IOZoneSet == SeqRange(io_zones)
MetaZoneSet == SeqRange(meta_zones)

\* the thread returns from its call
Return(t, r) ==
  /\ th' = [th EXCEPT ![t] = IdleThread]
  /\ res' = SetRes(t, r)

\* the first position from i on of a registry whose zone satisfies Want,
\* or 0
NextIn(q, i, want) ==
  LET S == {k \in i .. Len(q) : q[k] \in want}
  IN IF S = {} THEN 0 ELSE Least(S)

\* ZonedBlockDevice::IsLevelZone: the zone is indexed in a lifetime bucket
IsLevelZone(z) == \E l \in Levels : z \in level_zones[l]

\* an idle zone of a bucket is held by the pool of the buckets
PoolOf(z) == IF IsLevelZone(z) THEN {LevelPool} ELSE {}

\* the bucket index the code computes from a lifetime
LevelOf(lifetime) == lifetime - lifetime_begin_

\* AllocateIOZone's rewrite of the lifetime hint
TargetLifetime(file_lifetime, file_id) ==
  IF file_lifetime < WLTH_SHORT
  THEN (IF file_id = WalFileId THEN lifetime_begin_ ELSE HighestLevel)
  ELSE file_lifetime

(* --------------------------- EmitLevelZone ----------------------------- *)
\* ZonedBlockDevice::EmitLevelZone(z) called by thread t, which then goes
\* on as cont.  The zone leaves its bucket, loses its lease and its busy
\* flag; an emptied bucket gets a fresh zone (the thread spins under the
\* mutex until there is one), otherwise one open and one active token are
\* returned.
EmitLevelZoneBody(t, z, cont) ==
  LET idx == LevelOf(zone[z].lifetime_)
      lz1 == [level_zones EXCEPT ![idx] = @ \ {z}]
      zn1 == [zone EXCEPT ![z].useinlevelzone_ = FALSE, ![z].busy_ = FALSE]
      own1 == [own EXCEPT ![z] = @ \ {t, LevelPool}]
      a == EmptyZoneIn(zn1)
  IN /\ idx \in Levels
     /\ IF lz1[idx] = {}
        THEN IF a = nullptr
             THEN /\ zone' = zn1
                  /\ own' = own1
                  /\ level_zones' = lz1
                  /\ level_zones_mtx_' = t
                  /\ th' = [th EXCEPT ![t] =
                              [cont EXCEPT !.pc = "emit_spin", !.z = z,
                                           !.ret = cont.pc]]
                  /\ UNCHANGED tokenVars
             ELSE /\ zone' = [zn1 EXCEPT ![a].busy_ = TRUE,
                                         ![a].lifetime_ = zn1[z].lifetime_]
                  /\ own' = [own1 EXCEPT ![a] = @ \cup {LevelPool}]
                  /\ level_zones' = [lz1 EXCEPT ![idx] = @ \cup {a}]
                  /\ th' = [th EXCEPT ![t] = cont]
                  /\ UNCHANGED << tokenVars, level_zones_mtx_ >>
        ELSE /\ zone' = zn1
             /\ own' = own1
             /\ level_zones' = lz1
             /\ active_io_zones_' = active_io_zones_ - 1
             /\ open_io_zones_' = open_io_zones_ - 1
             /\ th' = [th EXCEPT ![t] = cont]
             /\ UNCHANGED level_zones_mtx_

\* EmitLevelZone(z) takes its last branch, which returns the tokens and
\* notifies the waiters: the bucket is not empty once z is out of it
EmitRefunds(z) ==
  /\ LevelOf(zone[z].lifetime_) \in Levels
  /\ level_zones[LevelOf(zone[z].lifetime_)] \ {z} # {}

\* EmitLevelZone on a zone whose lifetime is outside the configured
\* classes indexes level_zones out of its bounds: the process crashes, or
\* the stray accesses miss the buckets and the stray bucket reads as
\* non-empty, so that the tokens are returned.
EmitLevelZoneStray(t, z, cont, crash) ==
  /\ LevelOf(zone[z].lifetime_) \notin Levels
  /\ IF crash
     THEN /\ phase' = "crashed"
          /\ UNCHANGED << zone, own, tokenVars, th >>
     ELSE /\ zone' = [zone EXCEPT ![z].useinlevelzone_ = FALSE,
                                  ![z].busy_ = FALSE]
          /\ own' = [own EXCEPT ![z] = @ \ {t}]
          /\ active_io_zones_' = active_io_zones_ - 1
          /\ open_io_zones_' = open_io_zones_ - 1
          /\ th' = [th EXCEPT ![t] = cont]
          /\ UNCHANGED phase

\* the loop of EmitLevelZone finds an empty zone for the emptied bucket;
\* the bucket is the one of the lifetime the emitted zone has by now.  The
\* emitted zone was released before the loop: when it has been reset in
\* the meantime its lifetime is WLTH_NOT_SET and the insertion indexes
\* level_zones out of its bounds; the process crashes, or the insertion
\* misses the buckets and the fresh zone stays acquired.
EmitSpin(t) ==
  /\ phase = "running"
  /\ th[t].pc = "emit_spin"
  /\ AllocateEmptyZone # nullptr
  /\ LET a == AllocateEmptyZone
         idx == LevelOf(zone[th[t].z].lifetime_)
     IN IF idx \in Levels
        THEN /\ zone' = [zone EXCEPT ![a].busy_ = TRUE,
                                     ![a].lifetime_ = zone[th[t].z].lifetime_]
             /\ own' = [own EXCEPT ![a] = @ \cup {LevelPool}]
             /\ level_zones' = [level_zones EXCEPT ![idx] = @ \cup {a}]
             /\ UNCHANGED phase
        ELSE \/ /\ phase' = "crashed"
                /\ UNCHANGED << zone, own, level_zones >>
             \/ /\ zone' = [zone EXCEPT ![a].busy_ = TRUE,
                                        ![a].lifetime_ = zone[th[t].z].lifetime_]
                /\ own' = [own EXCEPT ![a] = @ \cup {LevelPool}]
                /\ UNCHANGED << phase, level_zones >>
  /\ level_zones_mtx_' = NoThread
  /\ th' = [th EXCEPT ![t] = [th[t] EXCEPT !.pc = th[t].ret, !.ret = "idle"]]
  /\ UNCHANGED << devVars, finished, offline, tokenVars,
                  level_active_io_zones_, zone_deferred_status_, gcVars,
                  res, hist >>

\* EmitLevelZone called by the writer that leases the zone, when the zone
\* is full
EmitLevelZone(t, z) ==
  /\ Running(t)
  /\ MtxFree
  /\ z \in IOZoneSet
  /\ t \in own[z]
  /\ IsFull(z)
  /\ EmitLevelZoneBody(t, z, IdleThread)
  /\ res' = SetRes(t, Result("EmitLevelZone", OK, z))
  /\ hist' = IF EmitRefunds(z) THEN NotifyAll(Called) ELSE Called
  /\ UNCHANGED << devVars, phase, finished, offline, level_active_io_zones_,
                  zone_deferred_status_, gcVars >>

EmitStrayLevelZone(t, z, crash) ==
  /\ Running(t)
  /\ MtxFree
  /\ z \in IOZoneSet
  /\ t \in own[z]
  /\ IsFull(z)
  /\ EmitLevelZoneStray(t, z, IdleThread, crash)
  /\ res' = SetRes(t, Result("EmitLevelZone", OK, z))
  /\ hist' = NotifyAll(Called)
  /\ UNCHANGED << devVars, finished, offline, levelVars,
                  zone_deferred_status_, gcVars, level_zones_mtx_ >>

\* ReleaseLevelZone without its notify_all
ReleaseLevelZone_NoNotify(t, z) ==
  /\ Running(t)
  /\ MtxFree
  /\ z \in IOZoneSet
  /\ t \in own[z]
  /\ LevelOf(zone[z].lifetime_) \in Levels
  /\ level_active_io_zones_' =
       [level_active_io_zones_ EXCEPT ![LevelOf(zone[z].lifetime_)] = @ + 1]
  /\ zone' = [zone EXCEPT ![z].useinlevelzone_ = FALSE]
  /\ own' = [own EXCEPT ![z] = (@ \ {t}) \cup PoolOf(z)]
  /\ res' = SetRes(t, Result("ReleaseLevelZone", OK, z))
  /\ hist' = Called
  /\ UNCHANGED << devVars, phase, finished, offline, tokenVars, level_zones,
                  zone_deferred_status_, gcVars, level_zones_mtx_, th >>

\* ZonedBlockDevice::ReleaseLevelZone called by the writer that leases
\* the zone
ReleaseLevelZone(t, z) ==
  /\ Running(t)
  /\ MtxFree
  /\ z \in IOZoneSet
  /\ t \in own[z]
  /\ LevelOf(zone[z].lifetime_) \in Levels
  /\ level_active_io_zones_' =
       [level_active_io_zones_ EXCEPT ![LevelOf(zone[z].lifetime_)] = @ + 1]
  /\ zone' = [zone EXCEPT ![z].useinlevelzone_ = FALSE]
  /\ own' = [own EXCEPT ![z] = (@ \ {t}) \cup PoolOf(z)]
  /\ res' = SetRes(t, Result("ReleaseLevelZone", OK, z))
  /\ hist' = NotifyAll(Called)
  /\ UNCHANGED << devVars, phase, finished, offline, tokenVars, level_zones,
                  zone_deferred_status_, gcVars, level_zones_mtx_, th >>

\* ReleaseLevelZone on a zone whose lifetime is outside the configured
\* classes increments a counter outside level_active_io_zones_: the
\* process crashes, or the increment misses the counters.
ReleaseStrayLevelZone(t, z, crash) ==
  /\ Running(t)
  /\ MtxFree
  /\ z \in IOZoneSet
  /\ t \in own[z]
  /\ LevelOf(zone[z].lifetime_) \notin Levels
  /\ IF crash
     THEN /\ phase' = "crashed"
          /\ UNCHANGED << zone, own, res >>
     ELSE /\ zone' = [zone EXCEPT ![z].useinlevelzone_ = FALSE]
          /\ own' = [own EXCEPT ![z] = @ \ {t}]
          /\ res' = SetRes(t, Result("ReleaseLevelZone", OK, z))
          /\ UNCHANGED phase
  /\ hist' = NotifyAll(Called)
  /\ UNCHANGED << devVars, finished, offline, tokenVars, levelVars,
                  zone_deferred_status_, gcVars, level_zones_mtx_, th >>

(* ---------------------------- token calls ------------------------------ *)
\* the open-token limit of WaitForOpenIOZoneToken
OpenLimit(prioritized) ==
  IF prioritized THEN max_nr_open_io_zones_ ELSE max_nr_open_io_zones_ - 1

\* ZonedBlockDevice::WaitForOpenIOZoneToken called from outside the
\* allocator; the wait ends when its predicate charges the token
WaitForOpenIOZoneToken(t, prioritized) ==
  /\ Running(t)
  /\ MtxFree
  /\ hist.ext_open < MaxExternalTokens
  /\ open_io_zones_ < OpenLimit(prioritized)
  /\ open_io_zones_' = open_io_zones_ + 1
  /\ hist' = [Called EXCEPT !.ext_open = @ + 1]
  /\ res' = SetRes(t, Result("WaitForOpenIOZoneToken", OK, nullptr))
  /\ UNCHANGED << devVars, phase, zoneVars, active_io_zones_, levelVars,
                  zone_deferred_status_, gcVars, level_zones_mtx_, th, own >>

\* ZonedBlockDevice::GetActiveIOZoneTokenIfAvailable
ActiveTokenAvailable == active_io_zones_ < max_nr_active_io_zones_

GetActiveIOZoneTokenIfAvailable(t) ==
  /\ Running(t)
  /\ MtxFree
  /\ hist.ext_active < MaxExternalTokens
  /\ IF ActiveTokenAvailable
     THEN /\ active_io_zones_' = active_io_zones_ + 1
          /\ hist' = [Called EXCEPT !.ext_active = @ + 1]
          /\ res' = SetRes(t, Result("GetActiveIOZoneTokenIfAvailable", OK, nullptr))
     ELSE /\ UNCHANGED active_io_zones_
          /\ hist' = Called
          /\ res' = SetRes(t, Result("GetActiveIOZoneTokenIfAvailable", "false", nullptr))
  /\ UNCHANGED << devVars, phase, zoneVars, open_io_zones_, levelVars,
                  zone_deferred_status_, gcVars, level_zones_mtx_, th, own >>

\* ZonedBlockDevice::PutOpenIOZoneToken, refunding a token taken by
\* WaitForOpenIOZoneToken
PutOpenIOZoneToken(t) ==
  /\ Running(t)
  /\ MtxFree
  /\ hist.ext_open > 0
  /\ open_io_zones_' = open_io_zones_ - 1
  /\ hist' = NotifyAll([Called EXCEPT !.ext_open = @ - 1])
  /\ res' = SetRes(t, Result("PutOpenIOZoneToken", OK, nullptr))
  /\ UNCHANGED << devVars, phase, zoneVars, active_io_zones_, levelVars,
                  zone_deferred_status_, gcVars, level_zones_mtx_, th, own >>

\* ZonedBlockDevice::PutActiveIOZoneToken, refunding a token taken by
\* GetActiveIOZoneTokenIfAvailable
PutActiveIOZoneToken(t) ==
  /\ Running(t)
  /\ MtxFree
  /\ hist.ext_active > 0
  /\ active_io_zones_' = active_io_zones_ - 1
  /\ hist' = NotifyAll([Called EXCEPT !.ext_active = @ - 1])
  /\ res' = SetRes(t, Result("PutActiveIOZoneToken", OK, nullptr))
  /\ UNCHANGED << devVars, phase, zoneVars, open_io_zones_, levelVars,
                  zone_deferred_status_, gcVars, level_zones_mtx_, th, own >>

(* ------------------------- deferred I/O error -------------------------- *)
\* what SetZoneDeferredStatus leaves in zone_deferred_status_
DeferredAfterSet(current, status) ==
  IF current # OK THEN status ELSE current

SetZoneDeferredStatus(t, status) ==
  /\ Running(t)
  /\ zone_deferred_status_' = DeferredAfterSet(zone_deferred_status_, status)
  /\ hist' = [Called EXCEPT !.deferred_set = @ \/ status # OK]
  /\ res' = SetRes(t, Result("SetZoneDeferredStatus", OK, nullptr))
  /\ UNCHANGED << devVars, phase, zoneVars, tokenVars, levelVars, gcVars,
                  level_zones_mtx_, th, own >>

GetZoneDeferredStatus(t) ==
  /\ Running(t)
  /\ res' = SetRes(t, Result("GetZoneDeferredStatus", zone_deferred_status_, nullptr))
  /\ hist' = Called
  /\ UNCHANGED << devVars, phase, zoneVars, tokenVars, levelVars,
                  zone_deferred_status_, gcVars, level_zones_mtx_, th, own >>

(* --------------------------- AllocateIOZone ---------------------------- *)
\* AllocateIOZone up to its maintenance: the deferred-error check
AllocateIOZone(t, file_lifetime, wal, file_id) ==
  /\ Running(t)
  /\ IF zone_deferred_status_ # OK
     THEN /\ res' = SetRes(t, Result("AllocateIOZone", zone_deferred_status_, nullptr))
          /\ th' = th
     ELSE /\ res' = SetRes(t, Result("AllocateIOZone", "pending", nullptr))
          /\ th' = [th EXCEPT ![t] =
                      [IdleThread EXCEPT
                         !.pc = IF wal THEN "alloc_wait" ELSE "finish_scan",
                         !.i = 1,
                         !.lt = TargetLifetime(file_lifetime, file_id),
                         !.wal = wal,
                         !.nested = TRUE,
                         !.hint = file_lifetime,
                         !.id = file_id]]
  /\ hist' = Called
  /\ UNCHANGED << devVars, phase, zoneVars, tokenVars, levelVars,
                  zone_deferred_status_, gcVars, level_zones_mtx_, own >>

\* ApplyFinishThreshold: the zones a pass finishes
WithinFinishThreshold(z) ==
  /\ CanAcquire(z)
  /\ ~(IsEmpty(z) \/ IsFull(z))
  /\ zone[z].capacity_ < (zone[z].max_capacity_ * finish_threshold_) \div 100

FinishCandidates ==
  IF finish_threshold_ = 0 THEN {}
  ELSE {z \in IOZoneSet : WithinFinishThreshold(z)}

\* the pass of ApplyFinishThreshold finds no further zone to finish
FinishScanDone(t) ==
  /\ phase = "running"
  /\ th[t].pc = "finish_scan"
  /\ NextIn(io_zones, th[t].i, FinishCandidates) = 0
  /\ th' = [th EXCEPT ![t].pc = "reset_scan", ![t].i = 1]
  /\ UNCHANGED << devVars, phase, zoneVars, tokenVars, levelVars,
                  zone_deferred_status_, gcVars, level_zones_mtx_, res, own,
                  hist >>

\* the pass acquires the next zone within the threshold, finishes it and
\* releases it
FinishScanZone(t, ok) ==
  /\ phase = "running"
  /\ th[t].pc = "finish_scan"
  /\ NextIn(io_zones, th[t].i, FinishCandidates) # 0
  /\ LET k == NextIn(io_zones, th[t].i, FinishCandidates)
         z == io_zones[k]
     IN IF ok
        THEN /\ zone' = [zone EXCEPT ![z] = ZoneAfterFinish(@)]
             /\ finished' = finished \cup {z}
             /\ th' = [th EXCEPT ![t].pc = "finish_put", ![t].i = k + 1,
                                 ![t].z = z]
             /\ res' = res
        ELSE /\ UNCHANGED << zone, finished >>
             /\ Return(t, Result("AllocateIOZone", IOError, nullptr))
  /\ UNCHANGED << devVars, phase, offline, tokenVars, levelVars,
                  zone_deferred_status_, gcVars, level_zones_mtx_, own, hist >>

\* FinishScanPut that keeps the active token of the finished zone
FinishScanPut_NoRefund(t) ==
  /\ phase = "running"
  /\ th[t].pc = "finish_put"
  /\ MtxFree
  /\ active_io_zones_' = active_io_zones_
  /\ th' = [th EXCEPT ![t].pc = "finish_scan", ![t].z = nullptr]
  /\ hist' = NotifyAll(hist)
  /\ UNCHANGED << devVars, phase, zoneVars, open_io_zones_, levelVars,
                  zone_deferred_status_, gcVars, level_zones_mtx_, res, own >>

\* ... and returns the active token of the finished zone
FinishScanPut(t) ==
  /\ phase = "running"
  /\ th[t].pc = "finish_put"
  /\ MtxFree
  /\ active_io_zones_' = active_io_zones_ - 1
  /\ th' = [th EXCEPT ![t].pc = "finish_scan", ![t].z = nullptr]
  /\ hist' = NotifyAll(hist)
  /\ UNCHANGED << devVars, phase, zoneVars, open_io_zones_, levelVars,
                  zone_deferred_status_, gcVars, level_zones_mtx_, res, own >>

(* ------------------------- ResetUnusedIOZones -------------------------- *)
ResetUnusedIOZones(t) ==
  /\ Running(t)
  /\ th' = [th EXCEPT ![t] = [IdleThread EXCEPT !.pc = "reset_scan", !.i = 1]]
  /\ res' = SetRes(t, Result("ResetUnusedIOZones", "pending", nullptr))
  /\ hist' = Called
  /\ UNCHANGED << devVars, phase, zoneVars, tokenVars, levelVars,
                  zone_deferred_status_, gcVars, level_zones_mtx_, own >>

\* the zones a pass resets: idle, not empty, without live data
ResetCandidates ==
  {z \in IOZoneSet : CanAcquire(z) /\ ~IsEmpty(z) /\ ~IsUsed(z)}

\* the name of the call a pass of ResetUnusedIOZones returns from
PassOp(t) == IF th[t].nested THEN "AllocateIOZone" ELSE "ResetUnusedIOZones"

\* the pass finds no further zone to reset
ResetScanDone(t) ==
  /\ phase = "running"
  /\ th[t].pc = "reset_scan"
  /\ NextIn(io_zones, th[t].i, ResetCandidates) = 0
  /\ IF th[t].nested
     THEN /\ th' = [th EXCEPT ![t].pc = "alloc_wait", ![t].i = 0]
          /\ res' = res
     ELSE Return(t, Result("ResetUnusedIOZones", OK, nullptr))
  /\ UNCHANGED << devVars, phase, zoneVars, tokenVars, levelVars,
                  zone_deferred_status_, gcVars, level_zones_mtx_, own, hist >>

\* the pass acquires the next idle zone that is not empty and has no live
\* data
ResetScanAcquire(t) ==
  /\ phase = "running"
  /\ th[t].pc = "reset_scan"
  /\ NextIn(io_zones, th[t].i, ResetCandidates) # 0
  /\ LET k == NextIn(io_zones, th[t].i, ResetCandidates)
         z == io_zones[k]
     IN /\ zone' = [zone EXCEPT ![z].busy_ = TRUE]
        /\ own' = [own EXCEPT ![z] = @ \cup {t}]
        /\ th' = [th EXCEPT ![t].pc = "reset_zone", ![t].i = k + 1, ![t].z = z]
  /\ UNCHANGED << devVars, phase, finished, offline, tokenVars, levelVars,
                  zone_deferred_status_, gcVars, level_zones_mtx_, res, hist >>

\* the assertions at the top of Zone::Reset
ResetAsserts(z) == ~IsUsed(z) /\ IsBusy(z)

\* Zone::Reset and CheckRelease on the acquired zone.  A zone that is not
\* full was open: its tokens are dealt with in the next step.  CheckRelease
\* fails when the busy flag is no longer set.
ResetScanZone(t, o) ==
  /\ phase = "running"
  /\ th[t].pc = "reset_zone"
  /\ o \in BackendReset(th[t].z)
  /\ LET z == th[t].z
         full == IsFull(z)
         released == IsBusy(z)
     IN /\ hist' = [hist EXCEPT !.bad_reset = @ \/ ~ResetAsserts(z)]
        /\ zone' = [zone EXCEPT
                      ![z] = [(IF o.ok THEN ZoneAfterReset(@, o) ELSE @)
                                EXCEPT !.busy_ = FALSE]]
        /\ finished' = IF o.ok THEN finished \ {z} ELSE finished
        /\ offline' = IF o.ok /\ o.offline THEN offline \cup {z} ELSE offline
        /\ own' = [own EXCEPT ![z] = @ \ {t}]
        /\ IF ~o.ok
           THEN Return(t, Result(PassOp(t), IOError, z))
           ELSE IF ~released
           THEN Return(t, Result(PassOp(t), Corruption, z))
           ELSE /\ th' = [th EXCEPT ![t].pc =
                            IF full THEN "reset_scan" ELSE "reset_emit"]
                /\ res' = res
  /\ UNCHANGED << devVars, phase, tokenVars, levelVars,
                  zone_deferred_status_, gcVars, level_zones_mtx_ >>

\* a build with assertions aborts in Zone::Reset when one of them fails
ResetScanAbort(t) ==
  /\ phase = "running"
  /\ th[t].pc = "reset_zone"
  /\ ~ResetAsserts(th[t].z)
  /\ phase' = "crashed"
  /\ hist' = [hist EXCEPT !.bad_reset = TRUE]
  /\ UNCHANGED << devVars, zoneVars, tokenVars, levelVars,
                  zone_deferred_status_, gcVars, level_zones_mtx_, th, res,
                  own >>

\* the zone that was reset was open: if it is indexed in a bucket it is
\* emitted, otherwise its active token is returned
ResetScanEmit(t) ==
  /\ phase = "running"
  /\ th[t].pc = "reset_emit"
  /\ MtxFree
  /\ IF IsLevelZone(th[t].z)
     THEN /\ EmitLevelZoneBody(t, th[t].z, [th[t] EXCEPT !.pc = "reset_scan"])
          /\ hist' = IF EmitRefunds(th[t].z) THEN NotifyAll(hist) ELSE hist
     ELSE /\ active_io_zones_' = active_io_zones_ - 1
          /\ th' = [th EXCEPT ![t].pc = "reset_scan"]
          /\ hist' = NotifyAll(hist)
          /\ UNCHANGED << zone, own, level_zones, open_io_zones_,
                          level_zones_mtx_ >>
  /\ UNCHANGED << devVars, phase, finished, offline, level_active_io_zones_,
                  zone_deferred_status_, gcVars, res >>

(* ------------------ AllocateIOZone: wait and branches ------------------ *)
\* the predicate of AllocateIOZone's wait on level_zone_resources_
AllocWaitOver(level) ==
  \/ level_active_io_zones_[level] > 0
  \/ open_io_zones_ < max_nr_open_io_zones_

\* the zones of a bucket that are not leased
IdleIn(level) == {z \in level_zones[level] : ~zone[z].useinlevelzone_}

\* whether the allocator opens a new zone: the idle counter of the bucket
\* is zero
TakesNewZone(level) == ~(level_active_io_zones_[level] > 0)

\* the idle-zone branch: the counter drops and a zone of the bucket that
\* is not leased is leased to the caller; a build with assertions aborts
\* when the zone is not busy
AllocIdleZone(t, z, abort) ==
  /\ phase = "running"
  /\ th[t].pc = "alloc_wait"
  /\ MtxFree
  /\ Awake(t)
  /\ LevelOf(th[t].lt) \in Levels
  /\ abort => ~IsBusy(z)
  /\ LET level == LevelOf(th[t].lt)
     IN /\ AllocWaitOver(level)
        /\ ~TakesNewZone(level)
        /\ z \in IdleIn(level)
        /\ level_active_io_zones_' =
             [level_active_io_zones_ EXCEPT ![level] = @ - 1]
        /\ zone' = [zone EXCEPT ![z].useinlevelzone_ = TRUE]
        /\ IF abort
           THEN /\ phase' = "crashed"
                /\ UNCHANGED << own, th, res >>
           ELSE /\ own' = [own EXCEPT ![z] = (@ \ {LevelPool}) \cup {t}]
                /\ Return(t, [Result("AllocateIOZone", OK, z)
                                EXCEPT !.lvl = level])
                /\ UNCHANGED phase
  /\ UNCHANGED << devVars, finished, offline, tokenVars, level_zones,
                  zone_deferred_status_, gcVars, level_zones_mtx_, hist >>

\* the idle-zone branch when every zone of the bucket is leased: the loop
\* leaves allocated_zone null, and the call returns OK with a null zone
\* unless the logging that dereferences it crashes
AllocIdleNone(t, crash) ==
  /\ phase = "running"
  /\ th[t].pc = "alloc_wait"
  /\ MtxFree
  /\ Awake(t)
  /\ LevelOf(th[t].lt) \in Levels
  /\ LET level == LevelOf(th[t].lt)
     IN /\ AllocWaitOver(level)
        /\ ~TakesNewZone(level)
        /\ IdleIn(level) = {}
        /\ level_active_io_zones_' =
             [level_active_io_zones_ EXCEPT ![level] = @ - 1]
        /\ IF crash
           THEN /\ phase' = "crashed"
                /\ UNCHANGED << th, res >>
           ELSE /\ Return(t, [Result("AllocateIOZone", OK, nullptr)
                                EXCEPT !.lvl = level])
                /\ UNCHANGED phase
  /\ UNCHANGED << devVars, zoneVars, tokenVars, level_zones,
                  zone_deferred_status_, gcVars, level_zones_mtx_, own, hist >>

\* the new-zone branch without its assignment of lifetime_
AllocBindNewZone_KeepLifetime(t, a) ==
  /\ zone' = [zone EXCEPT ![a].busy_ = TRUE,
                          ![a].useinlevelzone_ = TRUE]
  /\ own' = [own EXCEPT ![a] = @ \cup {t}]
  /\ level_zones' = [level_zones EXCEPT ![LevelOf(th[t].lt)] = @ \cup {a}]
  /\ Return(t, [Result("AllocateIOZone", OK, a) EXCEPT !.lvl = LevelOf(th[t].lt)])

\* the end of the new-zone branch: the empty zone a is bound to the class,
\* inserted into the bucket and leased to the caller
AllocBindNewZone(t, a) ==
  /\ zone' = [zone EXCEPT ![a].busy_ = TRUE,
                          ![a].lifetime_ = th[t].lt,
                          ![a].useinlevelzone_ = TRUE]
  /\ own' = [own EXCEPT ![a] = @ \cup {t}]
  /\ level_zones' = [level_zones EXCEPT ![LevelOf(th[t].lt)] = @ \cup {a}]
  /\ Return(t, [Result("AllocateIOZone", OK, a) EXCEPT !.lvl = LevelOf(th[t].lt)])

\* the new-zone branch: one open and one active token are charged, then
\* the thread looks for an empty zone, spinning under the mutex until
\* there is one
AllocNewZone(t) ==
  /\ phase = "running"
  /\ th[t].pc = "alloc_wait"
  /\ MtxFree
  /\ Awake(t)
  /\ LevelOf(th[t].lt) \in Levels
  /\ AllocWaitOver(LevelOf(th[t].lt))
  /\ TakesNewZone(LevelOf(th[t].lt))
  /\ open_io_zones_' = open_io_zones_ + 1
  /\ active_io_zones_' = active_io_zones_ + 1
  /\ IF AllocateEmptyZone = nullptr
     THEN /\ th' = [th EXCEPT ![t].pc = "alloc_spin"]
          /\ level_zones_mtx_' = t
          /\ UNCHANGED << zone, own, level_zones, res >>
     ELSE /\ AllocBindNewZone(t, AllocateEmptyZone)
          /\ UNCHANGED level_zones_mtx_
  /\ UNCHANGED << devVars, phase, finished, offline, level_active_io_zones_,
                  zone_deferred_status_, gcVars, hist >>

AllocSpin(t) ==
  /\ phase = "running"
  /\ th[t].pc = "alloc_spin"
  /\ AllocateEmptyZone # nullptr
  /\ AllocBindNewZone(t, AllocateEmptyZone)
  /\ level_zones_mtx_' = NoThread
  /\ UNCHANGED << devVars, phase, finished, offline, tokenVars,
                  level_active_io_zones_, zone_deferred_status_, gcVars,
                  hist >>

\* a target class outside the configured classes indexes
\* level_active_io_zones_ and level_zones out of their bounds: the process
\* crashes, or the stray counter reads as zero and the new-zone branch
\* runs, its insertion missing the buckets
AllocStray(t, crash) ==
  /\ phase = "running"
  /\ th[t].pc = "alloc_wait"
  /\ MtxFree
  /\ Awake(t)
  /\ LevelOf(th[t].lt) \notin Levels
  /\ IF crash \/ AllocateEmptyZone = nullptr
     THEN /\ phase' = "crashed"
          /\ UNCHANGED << zone, own, tokenVars, th, res >>
     ELSE /\ open_io_zones_ < max_nr_open_io_zones_
          /\ open_io_zones_' = open_io_zones_ + 1
          /\ active_io_zones_' = active_io_zones_ + 1
          /\ zone' = [zone EXCEPT ![AllocateEmptyZone].busy_ = TRUE,
                                  ![AllocateEmptyZone].lifetime_ = th[t].lt,
                                  ![AllocateEmptyZone].useinlevelzone_ = TRUE]
          /\ own' = [own EXCEPT ![AllocateEmptyZone] = @ \cup {t}]
          /\ Return(t, [Result("AllocateIOZone", OK, AllocateEmptyZone)
                          EXCEPT !.lvl = LevelOf(th[t].lt)])
          /\ UNCHANGED phase
  /\ UNCHANGED << devVars, finished, offline, levelVars,
                  zone_deferred_status_, gcVars, level_zones_mtx_, hist >>

(* -------------------------- migration channel -------------------------- *)
\* AllocateEmptyZoneForGC(false) up to its allocation: the call
AllocateEmptyZoneForGC(t) ==
  /\ Running(t)
  /\ th' = [th EXCEPT ![t] = [IdleThread EXCEPT !.pc = "gc_open"]]
  /\ res' = SetRes(t, Result("AllocateEmptyZoneForGC", "pending", nullptr))
  /\ hist' = Called
  /\ UNCHANGED << devVars, phase, zoneVars, tokenVars, levelVars,
                  zone_deferred_status_, gcVars, level_zones_mtx_, own >>

\* WaitForOpenIOZoneToken(false) inside AllocateEmptyZoneForGC
GCOpenToken(t) ==
  /\ phase = "running"
  /\ th[t].pc = "gc_open"
  /\ MtxFree
  /\ open_io_zones_ < OpenLimit(FALSE)
  /\ open_io_zones_' = open_io_zones_ + 1
  /\ th' = [th EXCEPT ![t].pc = "gc_active"]
  /\ hist' = [hist EXCEPT !.gc_open = @ + 1]
  /\ UNCHANGED << devVars, phase, zoneVars, active_io_zones_, levelVars,
                  zone_deferred_status_, gcVars, level_zones_mtx_, res, own >>

\* the loop on GetActiveIOZoneTokenIfAvailable ends
GCActiveToken(t) ==
  /\ phase = "running"
  /\ th[t].pc = "gc_active"
  /\ MtxFree
  /\ ActiveTokenAvailable
  /\ active_io_zones_' = active_io_zones_ + 1
  /\ th' = [th EXCEPT ![t].pc = "gc_alloc"]
  /\ hist' = [hist EXCEPT !.gc_active = @ + 1]
  /\ UNCHANGED << devVars, phase, zoneVars, open_io_zones_, levelVars,
                  zone_deferred_status_, gcVars, level_zones_mtx_, res, own >>

\* the rest of AllocateEmptyZoneForGC: the empty zone is bound to the
\* class of the migration zones and stored in its slot; with no empty zone
\* the call dereferences a null pointer
GCStore(t, aux) ==
  IF AllocateEmptyZone = nullptr
  THEN /\ phase' = "crashed"
       /\ UNCHANGED << zone, own, gc_zone_, gc_aux_zone_, th, res >>
  ELSE /\ zone' = [zone EXCEPT ![AllocateEmptyZone].busy_ = TRUE,
                               ![AllocateEmptyZone].lifetime_ = GCLifetime]
       /\ own' = [own EXCEPT ![AllocateEmptyZone] = @ \cup {GCSlot}]
       /\ gc_zone_' = IF aux THEN gc_zone_ ELSE AllocateEmptyZone
       /\ gc_aux_zone_' = IF aux THEN AllocateEmptyZone ELSE gc_aux_zone_
       /\ Return(t, Result("AllocateEmptyZoneForGC", OK, AllocateEmptyZone))
       /\ UNCHANGED phase

GCAllocate(t) ==
  /\ phase = "running"
  /\ th[t].pc = "gc_alloc"
  /\ GCStore(t, FALSE)
  /\ UNCHANGED << devVars, finished, offline, tokenVars, levelVars,
                  zone_deferred_status_, migr, level_zones_mtx_, hist >>

\* AllocateEmptyZoneForGC(true): no token is taken
AllocateEmptyZoneForGCAux(t) ==
  /\ Running(t)
  /\ GCStore(t, TRUE)
  /\ hist' = Called
  /\ UNCHANGED << devVars, finished, offline, tokenVars, levelVars,
                  zone_deferred_status_, migr, level_zones_mtx_ >>

\* what a call of TakeMigrateZone leaves: status, *out_zone and the room
\* that was asked for (pending: the call did not return)
Taken(s, z, min_capacity) ==
  [Result("TakeMigrateZone", s, z) EXCEPT !.size = min_capacity]

\* ZonedBlockDevice::TakeMigrateZone, under migrate_zone_mtx_.  With an
\* empty GC slot the call dereferences a null pointer.
TakeMigrateZone(t, min_capacity, ok) ==
  /\ Running(t)
  /\ migr[t] = nullptr
  /\ IF gc_zone_ = nullptr
     THEN /\ phase' = "crashed"
          /\ res' = SetRes(t, Taken("pending", nullptr, min_capacity))
          /\ UNCHANGED << zone, finished, own, gc_zone_, gc_aux_zone_, migr >>
     ELSE IF zone[gc_zone_].capacity_ < min_capacity
     THEN IF ~ok
          THEN /\ res' = SetRes(t, Taken(IOError, nullptr, min_capacity))
               /\ UNCHANGED << phase, zone, finished, own, gc_zone_,
                               gc_aux_zone_, migr >>
          ELSE IF ~IsBusy(gc_zone_)
          THEN /\ zone' = [zone EXCEPT ![gc_zone_] = ZoneAfterFinish(@)]
               /\ finished' = finished \cup {gc_zone_}
               /\ res' = SetRes(t, Taken(Corruption, nullptr, min_capacity))
               /\ UNCHANGED << phase, own, gc_zone_, gc_aux_zone_, migr >>
          ELSE /\ zone' = [zone EXCEPT
                             ![gc_zone_] = [ZoneAfterFinish(@) EXCEPT !.busy_ = FALSE]]
               /\ finished' = finished \cup {gc_zone_}
               /\ own' = [own EXCEPT ![gc_zone_] = @ \ {GCSlot}]
               /\ gc_zone_' = gc_aux_zone_
               /\ gc_aux_zone_' = nullptr
               /\ migr' = [migr EXCEPT ![t] = gc_aux_zone_]
               /\ res' = SetRes(t, Taken(OK, gc_aux_zone_, min_capacity))
               /\ UNCHANGED phase
     ELSE /\ migr' = [migr EXCEPT ![t] = gc_zone_]
          /\ res' = SetRes(t, Taken(OK, gc_zone_, min_capacity))
          /\ UNCHANGED << phase, zone, finished, own, gc_zone_, gc_aux_zone_ >>
  /\ hist' = Called
  /\ UNCHANGED << devVars, offline, tokenVars, levelVars,
                  zone_deferred_status_, level_zones_mtx_, th >>

\* ZonedBlockDevice::ReleaseMigrateZone on the zone TakeMigrateZone handed
\* out: it is released unless it is the zone in the GC slot
ReleaseMigrateZone(t) ==
  /\ Running(t)
  /\ migr[t] # nullptr
  /\ migr' = [migr EXCEPT ![t] = nullptr]
  /\ IF migr[t] = gc_zone_
     THEN /\ res' = SetRes(t, Result("ReleaseMigrateZone", OK, migr[t]))
          /\ UNCHANGED << zone, own >>
     ELSE /\ zone' = [zone EXCEPT ![migr[t]].busy_ = FALSE]
          /\ own' = [own EXCEPT ![migr[t]] = @ \ {t}]
          /\ res' = SetRes(t, Result("ReleaseMigrateZone",
                        IF IsBusy(migr[t]) THEN OK ELSE Corruption, migr[t]))
  /\ hist' = Called
  /\ UNCHANGED << devVars, phase, finished, offline, tokenVars, levelVars,
                  zone_deferred_status_, gc_zone_, gc_aux_zone_,
                  level_zones_mtx_, th >>

(* --------------------------- metadata zones ---------------------------- *)
AllocateMetaZone(t) ==
  /\ Running(t)
  /\ th' = [th EXCEPT ![t] = [IdleThread EXCEPT !.pc = "meta_scan", !.i = 1]]
  /\ res' = SetRes(t, Result("AllocateMetaZone", "pending", nullptr))
  /\ hist' = Called
  /\ UNCHANGED << devVars, phase, zoneVars, tokenVars, levelVars,
                  zone_deferred_status_, gcVars, level_zones_mtx_, own >>

\* the loop of AllocateMetaZone has gone through meta_zones
MetaScanDone(t) ==
  /\ phase = "running"
  /\ th[t].pc = "meta_scan"
  /\ th[t].i > Len(meta_zones)
  /\ Return(t, Result("AllocateMetaZone", NoSpace, nullptr))
  /\ UNCHANGED << devVars, phase, zoneVars, tokenVars, levelVars,
                  zone_deferred_status_, gcVars, level_zones_mtx_, own, hist >>

\* one iteration of the loop of AllocateMetaZone.  A zone that is acquired
\* and holds live data is left acquired.
MetaScanZone(t, o) ==
  /\ phase = "running"
  /\ th[t].pc = "meta_scan"
  /\ th[t].i <= Len(meta_zones)
  /\ LET z == meta_zones[th[t].i]
     IN /\ o \in BackendReset(z)
        /\ IF ~CanAcquire(z)
           THEN /\ th' = [th EXCEPT ![t].i = @ + 1]
                /\ UNCHANGED << zoneVars, own, res >>
           ELSE IF IsUsed(z)
           THEN /\ zone' = [zone EXCEPT ![z].busy_ = TRUE]
                /\ th' = [th EXCEPT ![t].i = @ + 1]
                /\ UNCHANGED << finished, offline, own, res >>
           ELSE IF ~IsEmpty(z) /\ ~o.ok
           THEN /\ th' = [th EXCEPT ![t].i = @ + 1]
                /\ UNCHANGED << zoneVars, own, res >>
           ELSE /\ zone' = [zone EXCEPT
                              ![z] = [(IF IsEmpty(z) THEN @ ELSE ZoneAfterReset(@, o))
                                        EXCEPT !.busy_ = TRUE]]
                /\ finished' = IF IsEmpty(z) THEN finished ELSE finished \ {z}
                /\ offline' = IF ~IsEmpty(z) /\ o.offline
                              THEN offline \cup {z} ELSE offline
                /\ own' = [own EXCEPT ![z] = @ \cup {t}]
                /\ Return(t, Result("AllocateMetaZone", OK, z))
  /\ UNCHANGED << devVars, phase, tokenVars, levelVars,
                  zone_deferred_status_, gcVars, level_zones_mtx_, hist >>

(* --------------------------- the zone manager -------------------------- *)
\* the devices the manager is opened on: the last one has too few zones
Devices ==
  { Device("fresh", MaxZones, 0, 0),
    Device("fresh", NrZones, diff_level_num_ + 1, 0),
    Device("used", NrZones, diff_level_num_ + reserved_zones + 1, 100),
    Device("aged", NrZones, 0, 0),
    Device("fresh", ZENFS_MIN_ZONES - 1, 0, 0) }

\* the requests of AllocateIOZone: lifetime hint and file id
Requests ==
  { [hint |-> WLTH_NOT_SET, id |-> WalFileId],
    [hint |-> WLTH_NOT_SET, id |-> WalFileId + 2],
    [hint |-> lifetime_begin_, id |-> WalFileId + 2],
    [hint |-> lifetime_begin_ + 1, id |-> WalFileId + 2] }

\* the files of the manager write whole zones
WriteSize == ZoneCapacity

\* what a Reset made by the manager reports
ManagerResets == {o \in ResetOutcomes : o.offline \/ o.max_capacity # ZoneCapacity - 1}

\* the devices the lifetime buckets are exercised on
LevelDevices ==
  { Device("fresh", NrZones, diff_level_num_ + 1, 0),
    Device("used", NrZones, diff_level_num_ + reserved_zones + 1, 100),
    Device("fresh", ZENFS_MIN_ZONES - 1, 0, 0) }

\* the manager before Open, on one of the devices
InitOn(devices) ==
  /\ InitCommon
  /\ dev \in devices
  /\ finish_threshold_ = dev.finish_threshold
  /\ phase = "closed"
  /\ zone = [z \in ZoneIds |-> ZoneCtor(dev.layout, z)]
  /\ finished = {z \in ZoneIds : DevKind(dev.layout, z) = "full"}
  /\ offline = {z \in ZoneIds : DevKind(dev.layout, z) = "offline"}

\* the writer of a file on the zone it holds; it also writes the metadata
\* log, whose zone it releases and whose records it invalidates after a roll
Writer(t) ==
  /\ phase = "running"
  /\ \E z \in IOZoneSet \cup MetaZoneSet :
       \/ AppendCall(t, z, WriteSize)
       \/ ExtentAdded(t, z)
       \/ z \in MetaZoneSet /\ Release(t, z)
       \/ z \in MetaZoneSet /\ IsIdle(t) /\ ExtentInvalidated(z)

WriterStep(t) ==
  /\ phase = "running"
  /\ \/ AppendWrite(t, WriteSize)
     \/ AppendError(t)

\* Two threads use the lifetime buckets: a background thread that reclaims
\* zones, and the writer of files.
Cleaner == "t1"
FileWriter == "t2"

NextLevels ==
  \/ \E readonly, exclusive \in BOOLEAN : Open(readonly, exclusive)
  \/ InitialLevelZones
  \/ Writer(FileWriter)
  \/ WriterStep(FileWriter)
  \/ \E z \in IOZoneSet : phase = "running" /\ ExtentInvalidated(z)
  \/ \E z \in ZoneIds : EmitLevelZone(FileWriter, z)
  \/ \E z \in ZoneIds, crash \in BOOLEAN :
       EmitStrayLevelZone(FileWriter, z, crash)
  \/ \E t \in Threads : EmitSpin(t)
  \/ \E z \in ZoneIds : ReleaseLevelZone(FileWriter, z)
  \/ \E z \in ZoneIds, crash \in BOOLEAN :
       ReleaseStrayLevelZone(FileWriter, z, crash)
  \/ \E r \in Requests, wal \in BOOLEAN :
       AllocateIOZone(FileWriter, r.hint, wal, r.id)
  \/ \E t \in Threads : FinishScanDone(t)
  \/ \E t \in Threads, ok \in BOOLEAN : FinishScanZone(t, ok)
  \/ \E t \in Threads : FinishScanPut(t)
  \/ ResetUnusedIOZones(Cleaner)
  \/ \E status \in {OK, IOError} : SetZoneDeferredStatus(Cleaner, status)
  \/ GetZoneDeferredStatus(FileWriter)
  \/ \E t \in Threads : ResetScanDone(t)
  \/ \E t \in Threads : ResetScanAcquire(t)
  \/ \E t \in Threads, o \in ManagerResets : ResetScanZone(t, o)
  \/ \E t \in Threads : ResetScanAbort(t)
  \/ \E t \in Threads : ResetScanEmit(t)
  \/ \E t \in Threads, z \in ZoneIds, abort \in BOOLEAN :
       AllocIdleZone(t, z, abort)
  \/ \E t \in Threads, crash \in BOOLEAN : AllocIdleNone(t, crash)
  \/ \E t \in Threads : AllocNewZone(t)
  \/ \E t \in Threads : AllocSpin(t)
  \/ \E t \in Threads, crash \in BOOLEAN : AllocStray(t, crash)

InitLevels == InitOn(LevelDevices)

SpecLevels == InitLevels /\ [][NextLevels]_vars

\* The token calls, the migration channel and the metadata zones: the
\* background thread migrates, the other thread takes tokens and writes
\* metadata.
Next ==
  \/ \E readonly, exclusive \in BOOLEAN : Open(readonly, exclusive)
  \/ InitialLevelZones
  \/ Writer(FileWriter)
  \/ WriterStep(FileWriter)
  \/ \E prioritized \in BOOLEAN : WaitForOpenIOZoneToken(FileWriter, prioritized)
  \/ GetActiveIOZoneTokenIfAvailable(FileWriter)
  \/ PutOpenIOZoneToken(FileWriter)
  \/ PutActiveIOZoneToken(FileWriter)
  \/ AllocateEmptyZoneForGC(Cleaner)
  \/ GCOpenToken(Cleaner)
  \/ GCActiveToken(Cleaner)
  \/ GCAllocate(Cleaner)
  \/ AllocateEmptyZoneForGCAux(Cleaner)
  \/ \E min_capacity \in {1, ZoneCapacity + 1}, ok \in BOOLEAN :
       TakeMigrateZone(Cleaner, min_capacity, ok)
  \/ ReleaseMigrateZone(Cleaner)
  \/ AllocateMetaZone(FileWriter)
  \/ MetaScanDone(FileWriter)
  \/ \E o \in ManagerResets : MetaScanZone(FileWriter, o)

Init == InitOn(Devices)

Spec == Init /\ [][Next]_vars

(* ============================ properties ============================== *)
\* a zone is writable while the device has neither finished it nor taken
\* it offline
Writable(z) == z \notin finished /\ z \notin offline

WpInCapacity(z) ==
  /\ zone[z].start_ <= zone[z].wp_
  /\ zone[z].wp_ <= zone[z].start_ + zone[z].max_capacity_

\* C7: for every writable zone (not finished, not offline),
\* wp - start + capacity = max_capacity, after construction from the
\* device report, after every iteration of the loop of Append (short
\* writes and a failing write included) and after every Reset.
C7_CapacityAccounting ==
  \A z \in ZoneIds :
    Writable(z) =>
      zone[z].wp_ - zone[z].start_ + zone[z].capacity_ = zone[z].max_capacity_

\* an Append is between two short writes on a writable zone
C7_Witness ==
  \E t \in Threads :
    /\ th[t].pc = "Append"
    /\ res[t].writes >= 1
    /\ Writable(th[t].z)

\* C8 as stated: every step keeps start <= wp <= start + max_capacity for
\* every zone.
C8_WpWithinMaxCapacity ==
  [][ (\A z \in ZoneIds : WpInCapacity(z))
        => (\A z \in ZoneIds : WpInCapacity(z))' ]_vars

\* C8 amended: start <= wp <= start + zone size for every zone in every
\* state, and wp <= start + max_capacity for every zone that is not
\* finished.
C8_WpWithinZone ==
  \A z \in ZoneIds :
    /\ zone[z].start_ <= zone[z].wp_
    /\ zone[z].wp_ <= zone[z].start_ + ZoneSize
    /\ z \notin finished => zone[z].wp_ <= zone[z].start_ + zone[z].max_capacity_

\* a finished zone whose write pointer is past its writable capacity
C8_Witness ==
  \E t \in Threads :
    /\ res[t].op = "Finish"
    /\ res[t].st = OK
    /\ zone[res[t].z].wp_ = zone[res[t].z].start_ + ZoneSize
    /\ zone[res[t].z].wp_ > zone[res[t].z].start_ + zone[res[t].z].max_capacity_

\* C10: Append(size) on a zone with capacity < size returns NoSpace, issues
\* no backend write and leaves wp and capacity as they were; otherwise it
\* returns OK only with wp advanced and capacity shrunk by exactly size,
\* however the backend splits the write.
C10_AppendAllOrError ==
  \A t \in Threads :
    res[t].op = "Append" =>
      /\ res[t].cap0 < res[t].size => res[t].st = NoSpace
      /\ res[t].st = NoSpace =>
           /\ res[t].cap0 < res[t].size
           /\ res[t].writes = 0
           /\ zone[res[t].z].wp_ = res[t].wp0
           /\ zone[res[t].z].capacity_ = res[t].cap0
      /\ res[t].st = OK =>
           /\ zone[res[t].z].wp_ = res[t].wp0 + res[t].size
           /\ zone[res[t].z].capacity_ = res[t].cap0 - res[t].size

\* an Append that the backend split into short writes has returned OK
C10_Witness ==
  \E t \in Threads :
    /\ res[t].op = "Append"
    /\ res[t].st = OK
    /\ res[t].writes >= 2

(* ------------------------ token caps (C1, C2) -------------------------- *)
\* C1: once Open and InitialLevelZones have run, the number of charged
\* open tokens never exceeds the cap: open_io_zones_ <= max_nr_open_io_zones_
C1_OpenWithinCap ==
  phase = "running" => open_io_zones_ <= max_nr_open_io_zones_

\* C2: in every state of an opened manager the number of charged active
\* tokens never exceeds the cap:
\* active_io_zones_ <= max_nr_active_io_zones_
C2_ActiveWithinCap ==
  phase \in {"opened", "running"} => active_io_zones_ <= max_nr_active_io_zones_

(* ------------------------- busy exclusivity (C3) ----------------------- *)
\* C3: a zone that somebody holds (the thread that acquired it or was
\* handed it, the pool of idle bucket zones, the migration slot) has its
\* busy flag set and has no second holder
C3_BusyExclusive ==
  \A z \in ZoneIds :
    own[z] # {} => IsBusy(z) /\ Cardinality(own[z]) = 1

(* --------------------- idle counters of buckets (C4) ------------------- *)
\* C4: whenever the bucket mutex is free, the idle counter of every bucket
\* equals the number of zones of the bucket that are not leased
C4_AvailableCountsIdle ==
  phase = "running" /\ MtxFree =>
    \A l \in Levels : level_active_io_zones_[l] = Cardinality(IdleIn(l))

(* ------------------- what AllocateIOZone hands out (C5) ---------------- *)
\* thread t returns from AllocateIOZone with OK, for a configured class
AllocateIOZoneReturnsOK(t) ==
  /\ th[t].pc \in {"alloc_wait", "alloc_spin"}
  /\ th'[t].pc = "idle"
  /\ res'[t].op = "AllocateIOZone"
  /\ res'[t].st = OK
  /\ res'[t].lvl \in Levels

\* the zone thread t was handed is there, busy, in bucket lvl, leased, and
\* held by t alone
ExclusiveLease(t, z, lvl) ==
  /\ z # nullptr
  /\ IsBusy(z)
  /\ z \in level_zones[lvl]
  /\ zone[z].useinlevelzone_
  /\ own[z] = {t}

\* C5: whenever AllocateIOZone returns OK for a configured class, the zone
\* it hands out is non-null, busy, a member of the bucket of that class,
\* leased, and leased to nobody else
C5_AllocationIsExclusiveLease ==
  [][\A t \in Threads :
       AllocateIOZoneReturnsOK(t) =>
         ExclusiveLease(t, res[t].z, res[t].lvl)']_vars

(* ----------------------- deferred error latch (C6) --------------------- *)
\* C6: once SetZoneDeferredStatus has been called with an error, the
\* deferred status is an error (and AllocateIOZone fails with it)
C6_DeferredLatch ==
  hist.deferred_set => zone_deferred_status_ # OK

(* ------------------------ resets by the manager (C9) ------------------- *)
\* C9: every Zone::Reset the manager makes finds the zone without live data
\* and busy, so that the assertions of Reset hold
C9_ResetOnlyUnusedBusy ==
  ~hist.bad_reset

(* ------------------------- metadata allocation ------------------------- *)
\* the step on which AllocateMetaZone returns to thread t
AllocateMetaZoneReturns(t) ==
  /\ th[t].pc = "meta_scan"
  /\ th'[t].pc = "idle"
  /\ res'[t].op = "AllocateMetaZone"

\* C11: AllocateMetaZone returns NoSpace if and only if every meta zone
\* holds live data (used_capacity > 0); when a meta zone is unused it
\* returns OK with a meta zone that is unused, empty and busy.  The meta
\* zones keep their used capacity while the scan runs, so the state before
\* the return tells what was used at the call.
C11_MetaNoSpaceIffAllUsed ==
  [][\A t \in Threads :
       AllocateMetaZoneReturns(t) =>
         /\ res'[t].st = NoSpace <=> \A z \in MetaZoneSet : IsUsed(z)
         /\ res'[t].st = OK =>
              /\ res'[t].z \in MetaZoneSet
              /\ zone'[res'[t].z].used_capacity_ = 0
              /\ zone'[res'[t].z].wp_ = zone'[res'[t].z].start_
              /\ zone'[res'[t].z].busy_]_vars

(* --------------------------- the open reserve -------------------------- *)
\* the step on which AllocateIOZone, called for a file that is not the
\* write-ahead log, charges an open token in its new-zone branch
NonPrioritizedCharge(t) ==
  /\ th[t].pc = "alloc_wait"
  /\ ~th[t].wal
  /\ th'[t].pc \in {"idle", "alloc_spin"}
  /\ open_io_zones_' = open_io_zones_ + 1

\* C12: the last open token is reserved for prioritized (WAL) callers: a
\* non-prioritized allocation charges an open token only when
\* open_io_zones was below max_nr_open_io_zones - 1 before the charge.
C12_LastOpenTokenReserved ==
  [][\A t \in Threads :
       NonPrioritizedCharge(t) => open_io_zones_ < max_nr_open_io_zones_ - 1]_vars

(* --------------------- the class of an allocated zone ------------------ *)
\* thread t returns from AllocateIOZone with OK and a zone
AllocateIOZoneHandsOut(t) ==
  /\ th[t].pc \in {"alloc_wait", "alloc_spin"}
  /\ th'[t].pc = "idle"
  /\ res'[t].op = "AllocateIOZone"
  /\ res'[t].st = OK
  /\ res'[t].z # nullptr

C14_BucketsNonEmpty ==
  (phase = "running" /\ MtxFree) => \A l \in Levels : level_zones[l] # {}

\* EmitLevelZone took the only zone of a bucket out and the bucket holds
\* another zone in its place
C14_Witness ==
  \E t \in Threads :
    /\ phase = "running"
    /\ MtxFree
    /\ res[t].op = "EmitLevelZone"
    /\ res[t].z # nullptr
    /\ LevelOf(zone[res[t].z].lifetime_) \in Levels
    /\ res[t].z \notin level_zones[LevelOf(zone[res[t].z].lifetime_)]
    /\ Cardinality(level_zones[LevelOf(zone[res[t].z].lifetime_)]) = 1

(* -------------------------- migration zones ---------------------------- *)
\* the step of a call of TakeMigrateZone by thread t
TakeMigrateZoneActs(t) ==
  /\ res'[t].op = "TakeMigrateZone"
  /\ res'[t] # res[t] \/ migr'[t] # migr[t]

\* C15: TakeMigrateZone(min_capacity) never runs on an empty GC slot, and
\* when it returns a zone the zone is the one in the GC slot, busy, with at
\* least min_capacity of room; otherwise it returns a null zone.
C15_TakeMigrateZoneSafe ==
  [][\A t \in Threads :
       TakeMigrateZoneActs(t) =>
         /\ gc_zone_ # nullptr
         /\ (res'[t].st = OK /\ res'[t].z # nullptr) =>
              /\ res'[t].z = gc_zone_'
              /\ zone'[res'[t].z].busy_
              /\ zone'[res'[t].z].capacity_ >= res'[t].size]_vars

(* ------------------------------ startup -------------------------------- *)
\* C16: after a writable exclusive Open on a device whose zones are all
\* online and empty, InitialLevelZones leaves 3 meta zones, (zone count - 3)
\* I/O zones, open_io_zones = active_io_zones = diff_level_num_, and in
\* each bucket i exactly one zone, which is empty, busy, of lifetime
\* i + lifetime_begin_ and counted idle (available[i] = 1).
C16_Startup ==
  [][(phase = "opened" /\ phase' = "running" /\ dev.layout = "fresh") =>
       /\ Len(meta_zones') = 3
       /\ Len(io_zones') = dev.nr - 3
       /\ open_io_zones_' = diff_level_num_
       /\ active_io_zones_' = diff_level_num_
       /\ \A i \in Levels :
            /\ Cardinality(level_zones'[i]) = 1
            /\ level_active_io_zones_'[i] = 1
            /\ \A z \in level_zones'[i] :
                 /\ zone'[z].wp_ = zone'[z].start_
                 /\ zone'[z].busy_
                 /\ ~zone'[z].useinlevelzone_
                 /\ zone'[z].lifetime_ = i + lifetime_begin_]_vars

\* the manager right after the startup on the largest device of empty zones
C16_Witness ==
  /\ phase = "running"
  /\ dev.layout = "fresh"
  /\ dev.nr = MaxZones
  /\ hist.calls = 0
  /\ open_io_zones_ = diff_level_num_
  /\ \A i \in Levels : level_zones[i] # {}

(* --------------------- waiting on level_zone_resources_ ---------------- *)
\* The wait of AllocateIOZone: a thread that finds its predicate false
\* sleeps on level_zone_resources_ until the next notify_all.
AllocBlock(t) ==
  /\ phase = "running"
  /\ th[t].pc = "alloc_wait"
  /\ MtxFree
  /\ Awake(t)
  /\ LevelOf(th[t].lt) \in Levels
  /\ ~AllocWaitOver(LevelOf(th[t].lt))
  /\ hist' = [hist EXCEPT !.asleep = @ \cup {t}]
  /\ UNCHANGED << devVars, phase, zoneVars, tokenVars, levelVars,
                  zone_deferred_status_, gcVars, level_zones_mtx_, th, res,
                  own >>

\* ZonedBlockDevice::WaitForOpenIOZoneToken step by step: the call, ...
WaitForOpenIOZoneTokenCall(t, prioritized) ==
  /\ Running(t)
  /\ hist.ext_open < MaxExternalTokens
  /\ th' = [th EXCEPT ![t] = [IdleThread EXCEPT !.pc = "open_wait",
                                                !.wal = prioritized]]
  /\ res' = SetRes(t, Result("WaitForOpenIOZoneToken", "pending", nullptr))
  /\ hist' = Called
  /\ UNCHANGED << devVars, phase, zoneVars, tokenVars, levelVars,
                  zone_deferred_status_, gcVars, level_zones_mtx_, own >>

\* ... the sleep on a false predicate, ...
WaitForOpenIOZoneTokenBlock(t) ==
  /\ phase = "running"
  /\ th[t].pc = "open_wait"
  /\ MtxFree
  /\ Awake(t)
  /\ ~(open_io_zones_ < OpenLimit(th[t].wal))
  /\ hist' = [hist EXCEPT !.asleep = @ \cup {t}]
  /\ UNCHANGED << devVars, phase, zoneVars, tokenVars, levelVars,
                  zone_deferred_status_, gcVars, level_zones_mtx_, th, res,
                  own >>

\* ... and the predicate that charges the token and ends the wait
WaitForOpenIOZoneTokenCharge(t) ==
  /\ phase = "running"
  /\ th[t].pc = "open_wait"
  /\ MtxFree
  /\ Awake(t)
  /\ open_io_zones_ < OpenLimit(th[t].wal)
  /\ open_io_zones_' = open_io_zones_ + 1
  /\ hist' = [hist EXCEPT !.ext_open = @ + 1]
  /\ Return(t, Result("WaitForOpenIOZoneToken", OK, nullptr))
  /\ UNCHANGED << devVars, phase, zoneVars, active_io_zones_, levelVars,
                  zone_deferred_status_, gcVars, level_zones_mtx_, own >>

\* the predicate a waiting thread waits for
WaitPredicate(t) ==
  \/ /\ th[t].pc = "alloc_wait"
     /\ LevelOf(th[t].lt) \in Levels
     /\ AllocWaitOver(LevelOf(th[t].lt))
  \/ /\ th[t].pc = "open_wait"
     /\ open_io_zones_ < OpenLimit(th[t].wal)

\* a waiting thread whose predicate holds goes on
WaitEnds(t) ==
  \/ \E z \in ZoneIds : AllocIdleZone(t, z, FALSE)
  \/ AllocNewZone(t)
  \/ WaitForOpenIOZoneTokenCharge(t)

\* the device of the waiting threads: room for one open zone beyond the
\* seeded ones
WaitDevices == { Device("fresh", MaxZones, diff_level_num_ + reserved_zones + 1, 0) }

\* Both threads write files of the first class and take open tokens.
NextWait ==
  \/ Open(FALSE, TRUE)
  \/ InitialLevelZones
  \/ \E t \in Threads : AllocateIOZone(t, lifetime_begin_, TRUE, WalFileId + 2)
  \/ \E t \in Threads : AllocBlock(t)
  \/ \E t \in Threads, z \in ZoneIds : AllocIdleZone(t, z, FALSE)
  \/ \E t \in Threads : AllocNewZone(t)
  \/ \E t \in Threads : Writer(t)
  \/ \E t \in Threads : WriterStep(t)
  \/ \E t \in Threads, z \in ZoneIds : ReleaseLevelZone(t, z)
  \/ \E t \in Threads, z \in ZoneIds : EmitRefunds(z) /\ EmitLevelZone(t, z)
  \/ \E t \in Threads, prioritized \in BOOLEAN :
       WaitForOpenIOZoneTokenCall(t, prioritized)
  \/ \E t \in Threads : WaitForOpenIOZoneTokenBlock(t)
  \/ \E t \in Threads : WaitForOpenIOZoneTokenCharge(t)
  \/ \E t \in Threads : PutOpenIOZoneToken(t)

InitWait == InitOn(WaitDevices)

\* a thread that can end its wait is scheduled eventually
SpecWait ==
  /\ InitWait
  /\ [][NextWait]_vars
  /\ \A t \in Threads : WF_vars(WaitEnds(t))

C18_OfflineUnusable ==
  [][\A z \in offline \cap IOZoneSet :
       /\ \A l \in DOMAIN level_zones :
            z \in level_zones'[l] => z \in level_zones[l]
       /\ gc_zone_' = z => gc_zone_ = z
       /\ gc_aux_zone_' = z => gc_aux_zone_ = z
       /\ \A t \in Threads :
            (/\ res'[t] # res[t]
             /\ res'[t].op \in {"AllocateIOZone", "AllocateEmptyZoneForGC"}
             /\ res'[t].st = OK) => res'[t].z # z]_vars

\* ---------------------------------------------------------------------
\* Same-lifetime allocation

\* C19: when bucket level holds a zone that is not leased at the moment
\* AllocateIOZone passes its wait, the call returns a zone that was already
\* in that bucket, available[level] drops by exactly one, and
\* open_io_zones, active_io_zones, the membership of every bucket and the
\* idle counter of every other bucket are unchanged.
C19_SameLifetimeAllocation ==
  [][\A t \in Threads :
       (/\ th[t].pc = "alloc_wait"
        /\ th'[t].pc # "alloc_wait"
        /\ LevelOf(th[t].lt) \in Levels
        /\ IdleIn(LevelOf(th[t].lt)) # {})
       => /\ th'[t].pc = "idle"
          /\ res'[t].op = "AllocateIOZone"
          /\ res'[t].st = OK
          /\ res'[t].z \in level_zones[LevelOf(th[t].lt)]
          /\ level_active_io_zones_' =
               [level_active_io_zones_ EXCEPT ![LevelOf(th[t].lt)] = @ - 1]
          /\ open_io_zones_' = open_io_zones_
          /\ active_io_zones_' = active_io_zones_
          /\ level_zones' = level_zones]_vars

\* ---------------------------------------------------------------------
\* EmitLevelZone

\* C20: EmitLevelZone(z), for any zone z indexed in bucket i (called on a
\* full zone by its writer, or by ResetUnusedIOZones on a zone it has just
\* reset), removes z from bucket i and clears its lease; if bucket i is
\* then empty, exactly one empty zone bound to class i + lifetime_begin_
\* is inserted and open_io_zones and active_io_zones are unchanged;
\* otherwise open_io_zones and active_io_zones each drop by exactly one,
\* the waiters are notified and no zone is inserted.  (When no empty zone
\* is at hand the call spins for one; the insertion is then the step that
\* ends the spin.)
C20_EmitLevelZone ==
  [][/\ \A t \in Threads, z \in IOZoneSet, i \in Levels :
          (/\ z \in level_zones[i]
           /\ \/ /\ th[t].pc = "idle"
                 /\ res'[t] # res[t]
                 /\ res'[t].op = "EmitLevelZone"
                 /\ res'[t].z = z
              \/ /\ th[t].pc = "reset_emit"
                 /\ th'[t].pc # "reset_emit"
                 /\ th[t].z = z)
          => /\ phase' = phase
             /\ ~zone'[z].useinlevelzone_
             /\ \A l \in Levels \ {i} : level_zones'[l] = level_zones[l]
             /\ IF level_zones[i] \ {z} # {}
                THEN /\ level_zones'[i] = level_zones[i] \ {z}
                     /\ open_io_zones_' = open_io_zones_ - 1
                     /\ active_io_zones_' = active_io_zones_ - 1
                     /\ hist'.asleep = {}
                ELSE /\ open_io_zones_' = open_io_zones_
                     /\ active_io_zones_' = active_io_zones_
                     /\ \/ /\ th'[t].pc = "emit_spin"
                           /\ level_zones'[i] = {}
                        \/ /\ th'[t].pc # "emit_spin"
                           /\ \E a \in IOZoneSet :
                                /\ level_zones'[i] = {a}
                                /\ zone'[a].wp_ = zone'[a].start_
                                /\ zone'[a].lifetime_ = i + lifetime_begin_
     /\ \A t \in Threads :
          (th[t].pc = "emit_spin" /\ th'[t].pc # "emit_spin")
          => /\ phase' = phase
             /\ open_io_zones_' = open_io_zones_
             /\ active_io_zones_' = active_io_zones_
             /\ \E i \in Levels, a \in IOZoneSet :
                  /\ level_zones[i] = {}
                  /\ level_zones' = [level_zones EXCEPT ![i] = {a}]
                  /\ zone'[a].wp_ = zone'[a].start_
                  /\ zone'[a].lifetime_ = i + lifetime_begin_]_vars

\* ---------------------------------------------------------------------
\* Zones indexed in the buckets

\* C21: in every reachable state every zone indexed in lifetime bucket i
\* has lifetime i + lifetime_begin_ (so never WLTH_NOT_SET: no zone stays
\* indexed after a Reset has cleared its lifetime), and every indexed zone
\* accounts for one charged open token and one charged active token: the
\* buckets index no more zones than open_io_zones and active_io_zones
\* count.
C21_IndexedZonesBoundAndCharged ==
  /\ \A i \in Levels : \A z \in level_zones[i] :
       zone[z].lifetime_ = i + lifetime_begin_
  /\ Cardinality({p \in Levels \X ZoneIds : p[2] \in level_zones[p[1]]})
       <= open_io_zones_
  /\ Cardinality({p \in Levels \X ZoneIds : p[2] \in level_zones[p[1]]})
       <= active_io_zones_

\* ---------------------------------------------------------------------
\* ApplyFinishThreshold

C23_ResetUnusedIOZones ==
  [][\A t \in Threads :
       /\ (th[t].pc = "reset_zone" /\ th'[t] # th[t]) =>
            /\ open_io_zones_' = open_io_zones_
            /\ active_io_zones_' = active_io_zones_
            /\ level_zones' = level_zones
            /\ ~zone'[th[t].z].busy_
            /\ (th'[t].pc = "idle" /\ res'[t].st = IOError) =>
                 zone' = [zone EXCEPT ![th[t].z].busy_ = FALSE]
            /\ th'[t].pc = "reset_emit" => zone[th[t].z].capacity_ # 0
            /\ th'[t].pc = "reset_scan" => zone[th[t].z].capacity_ = 0
       /\ (th[t].pc = "reset_emit" /\ th'[t] # th[t]) =>
            IF \E l \in Levels : th[t].z \in level_zones[l]
            THEN \E l \in Levels :
                   /\ th[t].z \in level_zones[l]
                   /\ \A m \in Levels \ {l} : level_zones'[m] = level_zones[m]
                   /\ IF level_zones[l] \ {th[t].z} # {}
                      THEN /\ level_zones'[l] = level_zones[l] \ {th[t].z}
                           /\ open_io_zones_' = open_io_zones_ - 1
                           /\ active_io_zones_' = active_io_zones_ - 1
                      ELSE /\ open_io_zones_' = open_io_zones_
                           /\ active_io_zones_' = active_io_zones_
                           /\ \/ /\ th'[t].pc = "emit_spin"
                                 /\ level_zones'[l] = {}
                              \/ /\ th'[t].pc = "reset_scan"
                                 /\ \E a \in IOZoneSet :
                                      /\ level_zones'[l] = {a}
                                      /\ zone'[a].wp_ = zone'[a].start_
                                      /\ zone'[a].lifetime_ = l + lifetime_begin_
            ELSE /\ active_io_zones_' = active_io_zones_ - 1
                 /\ open_io_zones_' = open_io_zones_
                 /\ level_zones' = level_zones
                 /\ th'[t].pc = "reset_scan"
       /\ (/\ th[t].pc = "emit_spin"
           /\ th[t].ret = "reset_scan"
           /\ th'[t] # th[t]) =>
            /\ phase' = phase
            /\ open_io_zones_' = open_io_zones_
            /\ active_io_zones_' = active_io_zones_
            /\ \E l \in Levels, a \in IOZoneSet :
                 /\ level_zones[l] = {}
                 /\ level_zones' = [level_zones EXCEPT ![l] = {a}]
                 /\ zone'[a].wp_ = zone'[a].start_
                 /\ zone'[a].lifetime_ = l + lifetime_begin_]_vars

\* ---------------------------------------------------------------------
\* AllocateEmptyZoneForGC

\* C24: whenever AllocateEmptyZoneForGC(aux) returns OK the slot it
\* targets holds a non-null, empty, busy zone of the GC lifetime class;
\* with aux = false the call has charged exactly one open and one active
\* token on its way (one step each) and with aux = true none; and when the
\* registry has no empty zone that can be acquired the call does not use a
\* null zone: the process goes on, no null zone is stored and no token
\* stays charged.
C24_AllocateEmptyZoneForGC ==
  [][\A t \in Threads :
       /\ (/\ res'[t] # res[t]
           /\ res'[t].op = "AllocateEmptyZoneForGC"
           /\ res'[t].st = OK) =>
            /\ res'[t].z # nullptr
            /\ (IF th[t].pc = "idle" THEN gc_aux_zone_' ELSE gc_zone_')
                 = res'[t].z
            /\ zone'[res'[t].z].wp_ = zone'[res'[t].z].start_
            /\ zone'[res'[t].z].busy_
            /\ zone'[res'[t].z].lifetime_ = GCLifetime
            /\ open_io_zones_' = open_io_zones_
            /\ active_io_zones_' = active_io_zones_
       /\ (th[t].pc = "gc_open" /\ th'[t] # th[t]) =>
            /\ th'[t].pc = "gc_active"
            /\ open_io_zones_' = open_io_zones_ + 1
            /\ active_io_zones_' = active_io_zones_
       /\ (th[t].pc = "gc_active" /\ th'[t] # th[t]) =>
            /\ th'[t].pc = "gc_alloc"
            /\ open_io_zones_' = open_io_zones_
            /\ active_io_zones_' = active_io_zones_ + 1
       /\ (/\ phase = "running"
           /\ AllocateEmptyZone = nullptr
           /\ \/ th[t].pc = "gc_alloc"
              \/ th[t].pc = "idle" /\ res' = res /\ t = Cleaner) =>
            phase' = "running"]_vars

\* ---------------------------------------------------------------------
\* Tokens of the migration channel

\* C25: token counts follow zone state: the open and active tokens that
\* AllocateEmptyZoneForGC has charged never exceed the number of zones
\* that are not full in the GC slot (0 or 1), whatever sequence of
\* AllocateEmptyZoneForGC(false), AllocateEmptyZoneForGC(true) and
\* TakeMigrateZone calls has run; a zone that TakeMigrateZone finishes is
\* no longer counted.  (Stated between calls: a call under way has charged
\* its tokens before it stores its zone.)
C25_MigrationTokensFollowZone ==
  (/\ phase = "running"
   /\ \A t \in Threads : th[t].pc \notin {"gc_open", "gc_active", "gc_alloc"})
  => /\ hist.gc_open <=
          (IF gc_zone_ # nullptr /\ zone[gc_zone_].capacity_ # 0
           THEN 1 ELSE 0)
     /\ hist.gc_active <=
          (IF gc_zone_ # nullptr /\ zone[gc_zone_].capacity_ # 0
           THEN 1 ELSE 0)

\* ---------------------------------------------------------------------
\* Acquire and release in the scans

\* C26: every acquire of a scan is matched.  In each iteration of the
\* loop of AllocateMetaZone, and in AllocateEmptyZone as run by
\* AllocateEmptyZoneForGC, the only zone whose busy flag goes from false to
\* true is the zone the operation hands back in that step; every other
\* zone it acquired, a meta zone with live data included, is released
\* again.
C26_AcquireMatched ==
  [][\A t \in Threads, z \in ZoneIds :
       (/\ ~zone[z].busy_
        /\ zone'[z].busy_
        /\ th'[t] # th[t] \/ res'[t] # res[t]
        /\ \/ th[t].pc = "meta_scan"
           \/ th[t].pc = "gc_alloc"
           \/ res'[t].op = "AllocateEmptyZoneForGC")
       => /\ th'[t].pc = "idle"
          /\ res'[t].st = OK
          /\ res'[t].z = z]_vars


(* ------------------------------- C27 ----------------------------------- *)
\* C27: every bucket index stays inside the configured buckets: when
\* AllocateIOZone reaches its wait, the index of its target class
\* (target class - lifetime_begin_) lies in 0..diff_level_num_-1, and
\* every EmitLevelZone and ReleaseLevelZone call is made on a zone whose
\* current lifetime gives an index in 0..diff_level_num_-1.
C27_BucketIndexInRange ==
  [][/\ \A t \in Threads :
          th'[t].pc = "alloc_wait" => LevelOf(th'[t].lt) \in Levels
     /\ \A t \in Threads :
          (/\ res'[t] # res[t]
           /\ res'[t].op \in {"EmitLevelZone", "ReleaseLevelZone"})
          => LevelOf(zone[res'[t].z].lifetime_) \in Levels]_vars

====
